---- MODULE Spec2Model ----
(***************************************************************************)
(* Ingestion-token registry and shard allocation of the multi-tenant       *)
(* ingestion control plane (packages/api).                                 *)
(*                                                                         *)
(* The token collection is a sequence of documents; a document's id is its *)
(* position.  Spec takes every controller call as one step (requests       *)
(* handled one after the other); ParSpec splits createIngestionToken and   *)
(* rotateIngestionToken at their awaits, so that two requests interleave.  *)
(***************************************************************************)
EXTENDS Integers, Sequences, FiniteSets, TLC

(* ---------------------------------------------------------------- bounds *)
NumTeams == 3
MaxPlain == 3
MaxTime == 2
ShardCount == 2
NumProcs == 2
NumUsers == 2

Teams == 1..NumTeams
Plain == 1..MaxPlain
TokenIds == 1..MaxPlain
Dates == 1..MaxTime
Procs == 1..NumProcs
Users == 1..NumUsers

NoDate == 0
NoShard == <<>>
NoTeam == 0
NoDoc == [tokenId |-> 0]

(* `shard-${i}` *)
ShardId(i) == <<"shard-", i>>

(* the shard names a PATCH /:id/shard body carries here: the allocator's    *)
ShardNames == {ShardId(i) : i \in 0..(ShardCount - 1)}

(* tokens      the IngestionToken collection, in insertion order           *)
(* last        the outcome of the call that returned last: "OK", or        *)
(*             "NOT_FOUND" (a null document), "NULL" (resolve gave null),  *)
(*             "SHARDS_EXHAUSTED", "DUPLICATE_KEY" (the call threw)        *)
(* issued      what create and rotate handed back, by document id: the     *)
(*             plaintext, the team, the shard, and for a rotate the id of  *)
(*             the active token of the team that it revoked (else 0)       *)
(* assignUsed  whether assignIngestionTokenShard was ever called           *)
(* req         the create and rotate calls in progress (ParSpec)           *)
(* warned      whether the call that returned last logged the warning of   *)
(*             assignIngestionTokenShard (other teams on the target shard) *)
VARIABLES tokens, last, issued, assignUsed, req, warned

(* conns       the Connection collection, in insertion order               *)
(* config      by shard, the collector config of the last OpAMP response   *)
(*             for that shard (NoConfig before the first)                  *)
(* store       the analytical store: databases, users, grants and tables   *)
(* sources     the Source collection: by team, the team's documents in     *)
(*             insertion order                                             *)
(* boot        the tenant-bootstrap calls in progress                      *)
(* enabled     CLICKHOUSE_TENANT_PROVISIONING_ENABLED                      *)
VARIABLES conns, config, store, sources, boot, enabled

tenantVars == <<conns, config, store, sources, boot, enabled>>

tokenVars == <<tokens, last, issued, assignUsed, req, warned>>

(* users       by user, whether User.register has stored it and its team   *)
(*             field                                                       *)
(* teamDocs    the ids of the Team collection                              *)
(* members     the TeamMembership collection                               *)
(* session     by user, req.session.activeTeamId                           *)
(* agents      the agent registry of agentService, by instance uid         *)
(* reply       the status of the last response of the registration, team   *)
(*             and OpAMP routes (0 before the first)                       *)
VARIABLES users, teamDocs, members, session, agents, reply

frontVars == <<users, teamDocs, members, session, agents, reply>>

vars == <<tokens, last, issued, assignUsed, req, warned, conns, config, store, sources, boot, enabled,
          users, teamDocs, members, session, agents, reply>>

(* ----------------------------------------------------------- token codec *)
hashIngestionToken(token) == <<"sha256", token>>

(* The text of plaintext number token: `hdx_ingest_${raw}`, raw standing   *)
(* for the base64url text of the random bytes (two characters here, a      *)
(* different pair for each number below Len(Alphabet)^2).                  *)
Marker == <<"h", "d", "x", "_", "i", "n", "g", "e", "s", "t", "_">>

Alphabet == <<"A", "B", "C", "D", "E", "F", "G", "H">>

Raw(token) ==
  <<Alphabet[(token % Len(Alphabet)) + 1], Alphabet[((token \div Len(Alphabet)) % Len(Alphabet)) + 1]>>

TokenText(token) == Marker \o Raw(token)

PrefixChars == 12

tokenPrefix_whole(token) == TokenText(token)

(* token.slice(0, chars), chars = 12 *)
tokenPrefix(token) ==
  LET text == TokenText(token)
  IN SubSeq(text, 1, IF Len(text) < PrefixChars THEN Len(text) ELSE PrefixChars)

(* generateIngestionToken: "hdx_ingest_" and 256 random bits.  A draw never *)
(* repeats a token drawn before; the tokens being opaque, the draw is the   *)
(* lowest one not yet stored.  No draw is left once MaxPlain are stored.    *)
StoredTokens(toks) == {t \in Plain : \E i \in DOMAIN toks : toks[i].tokenHash = hashIngestionToken(t)}

generateIngestionToken(toks) ==
  LET fresh == Plain \ StoredTokens(toks)
  IN IF fresh = {} THEN {} ELSE {CHOOSE t \in fresh : \A u \in fresh : t <= u}

(* ------------------------------------------------------------ collection *)
Ids(toks) == DOMAIN toks

ActiveIds(toks) == {i \in Ids(toks) : toks[i].status = "active"}

ActiveOfTeam(toks, team) == {i \in ActiveIds(toks) : toks[i].team = team}

(* unique index on tokenHash *)
HashTaken_noIndex(toks, tokenHash) == FALSE

HashTaken(toks, tokenHash) == \E i \in Ids(toks) : toks[i].tokenHash = tokenHash

(* ------------------------------------------------------- shard allocator *)
teamsPerShard_revokedOnly(toks, excludeTeamId, shardId) ==
  {toks[i].team : i \in {j \in Ids(toks) \ ActiveIds(toks) :
                           /\ toks[j].team # excludeTeamId
                           /\ toks[j].assignedShard = shardId}}

teamsPerShard_anyStatus(toks, excludeTeamId, shardId) ==
  {toks[i].team : i \in {j \in Ids(toks) :
                           /\ toks[j].team # excludeTeamId
                           /\ toks[j].assignedShard # NoShard
                           /\ toks[j].assignedShard = shardId}}

teamsPerShard(toks, excludeTeamId, shardId) ==
  {toks[i].team : i \in {j \in ActiveIds(toks) :
                           /\ toks[j].team # excludeTeamId
                           /\ toks[j].assignedShard # NoShard
                           /\ toks[j].assignedShard = shardId}}

RECURSIVE firstFreeShard_offByOne(_, _, _, _)
firstFreeShard_offByOne(toks, shardCount, excludeTeamId, i) ==
  IF i > shardCount THEN NoShard
  ELSE IF teamsPerShard(toks, excludeTeamId, ShardId(i)) = {} THEN ShardId(i)
  ELSE firstFreeShard_offByOne(toks, shardCount, excludeTeamId, i + 1)

RECURSIVE firstFreeShard(_, _, _, _)
firstFreeShard(toks, shardCount, excludeTeamId, i) ==
  IF i >= shardCount THEN NoShard
  ELSE IF teamsPerShard(toks, excludeTeamId, ShardId(i)) = {} THEN ShardId(i)
  ELSE firstFreeShard(toks, shardCount, excludeTeamId, i + 1)

findNextAvailableShard(toks, shardCount, excludeTeamId) ==
  firstFreeShard(toks, shardCount, excludeTeamId, 0)

(* new Date(): the clock never runs backwards, so a date read now is not    *)
(* before any date already written                                         *)
Clock(toks) == {d \in Dates : \A i \in Ids(toks) : toks[i].revokedAt <= d /\ toks[i].lastUsedAt <= d}

(* ------------------------------------------------------------ controller *)
resolveIngestionToken_anyStatus(toks, token) ==
  LET tokenHash == hashIngestionToken(token)
      found == {i \in Ids(toks) : toks[i].tokenHash = tokenHash}
  IN IF found = {} THEN NoDoc
     ELSE LET i == CHOOSE j \in found : TRUE
          IN [tokenId |-> i, tokenHash |-> tokenHash, teamId |-> toks[i].team,
              assignedShard |-> toks[i].assignedShard]

resolveIngestionToken(toks, token) ==
  LET tokenHash == hashIngestionToken(token)
      found == {i \in Ids(toks) : toks[i].tokenHash = tokenHash /\ toks[i].status = "active"}
  IN IF found = {} THEN NoDoc
     ELSE LET i == CHOOSE j \in found : TRUE
          IN [tokenId |-> i, tokenHash |-> tokenHash, teamId |-> toks[i].team,
              assignedShard |-> toks[i].assignedShard]

(* listIngestionTokens: find({team}).sort({createdAt: -1}), the ids of the *)
(* team's documents, newest first                                          *)
RECURSIVE newestFirst(_, _, _)
newestFirst(toks, team, i) ==
  IF i = 0 THEN <<>>
  ELSE (IF toks[i].team = team THEN <<i>> ELSE <<>>) \o newestFirst(toks, team, i - 1)

listIngestionTokens(toks, team) == newestFirst(toks, team, Len(toks))

(* the body of GET /ingestion-tokens *)
ListResponse(toks, team) ==
  LET found == listIngestionTokens(toks, team)
  IN [k \in DOMAIN found |->
        [id |-> found[k], tokenPrefix |-> toks[found[k]].tokenPrefix, status |-> toks[found[k]].status,
         assignedShard |-> toks[found[k]].assignedShard, lastUsedAt |-> toks[found[k]].lastUsedAt,
         revokedAt |-> toks[found[k]].revokedAt]]

(* the body of a successful PATCH /ingestion-tokens/:id/shard; a successful *)
(* DELETE /ingestion-tokens/:id has no body                                 *)
AssignResponse(toks, tokenId) == [id |-> tokenId, assignedShard |-> toks[tokenId].assignedShard]

(* the shards createIngestionToken may settle on: the shard of an active   *)
(* token of the team (findOne gives any one of them), else the allocator's *)
ShardChoices_allocatorOnly(toks, team) ==
  {findNextAvailableShard(toks, ShardCount, NoTeam)}

ShardChoices(toks, team) ==
  IF \E i \in ActiveOfTeam(toks, team) : toks[i].assignedShard # NoShard
  THEN {toks[i].assignedShard : i \in {j \in ActiveOfTeam(toks, team) : toks[j].assignedShard # NoShard}}
  ELSE {findNextAvailableShard(toks, ShardCount, NoTeam)}

NewDoc_noShard(team, token, shard) ==
  [team |-> team, tokenHash |-> hashIngestionToken(token),
   tokenPrefix |-> tokenPrefix(token), status |-> "active",
   assignedShard |-> NoShard, revokedAt |-> NoDate, lastUsedAt |-> NoDate]

NewDoc_firstShard(team, token, shard) ==
  [team |-> team, tokenHash |-> hashIngestionToken(token),
   tokenPrefix |-> tokenPrefix(token), status |-> "active",
   assignedShard |-> ShardId(0), revokedAt |-> NoDate, lastUsedAt |-> NoDate]

NewDoc(team, token, shard) ==
  [team |-> team, tokenHash |-> hashIngestionToken(token),
   tokenPrefix |-> tokenPrefix(token), status |-> "active",
   assignedShard |-> shard, revokedAt |-> NoDate, lastUsedAt |-> NoDate]

RevokeMatches_anyTeam(toks, team, tokenId) ==
  tokenId \in Ids(toks)

(* findOneAndUpdate({_id, team}, {status: 'revoked', revokedAt: new Date()}) *)
RevokeMatches(toks, team, tokenId) ==
  tokenId \in Ids(toks) /\ toks[tokenId].team = team

revokeIngestionToken_noDate(toks, team, tokenId, date) ==
  IF RevokeMatches(toks, team, tokenId)
  THEN [toks EXCEPT ![tokenId].status = "revoked"]
  ELSE toks

revokeIngestionToken_skips(toks, team, tokenId, date) == toks

revokeIngestionToken(toks, team, tokenId, date) ==
  IF RevokeMatches(toks, team, tokenId)
  THEN [toks EXCEPT ![tokenId].status = "revoked", ![tokenId].revokedAt = date]
  ELSE toks


(* createIngestionToken on the collection toks with the token drawn from   *)
(* draws; shared by create and rotate.  The token is drawn first in the    *)
(* code; it is used by the insert alone, so the draw is taken there.       *)
CreateWith(toks, team, oldId, draws) ==
  \E shard \in ShardChoices(toks, team) :
    IF shard = NoShard
    THEN /\ tokens' = toks
         /\ last' = "SHARDS_EXHAUSTED"
         /\ issued' = issued
    ELSE \E token \in draws :
         IF HashTaken(toks, hashIngestionToken(token))
         THEN /\ tokens' = toks
              /\ last' = "DUPLICATE_KEY"
              /\ issued' = issued
         ELSE LET id == Len(toks) + 1
              IN /\ tokens' = Append(toks, NewDoc(team, token, shard))
                 /\ last' = "OK"
                 /\ issued' = Append(issued, [token |-> token, tokenId |-> id, teamId |-> team,
                                              assignedShard |-> shard, rotated |-> oldId])

CreateOn(toks, team, oldId) == CreateWith(toks, team, oldId, generateIngestionToken(toks))

Create(team) ==
  /\ CreateOn(tokens, team, 0)
  /\ UNCHANGED <<assignUsed, req>>
  /\ warned' = FALSE
  /\ UNCHANGED tenantVars
  /\ UNCHANGED frontVars

Rotate(team, tokenId) ==
  /\ \E date \in Clock(tokens) :
       CreateOn(revokeIngestionToken(tokens, team, tokenId, date), team,
                IF RevokeMatches(tokens, team, tokenId) /\ tokens[tokenId].status = "active"
                THEN tokenId ELSE 0)
  /\ UNCHANGED <<assignUsed, req>>
  /\ warned' = FALSE
  /\ UNCHANGED tenantVars
  /\ UNCHANGED frontVars

Revoke(team, tokenId) ==
  /\ \E date \in Clock(tokens) : tokens' = revokeIngestionToken(tokens, team, tokenId, date)
  /\ last' = IF RevokeMatches(tokens, team, tokenId) THEN "OK" ELSE "NOT_FOUND"
  /\ UNCHANGED <<issued, assignUsed, req>>
  /\ warned' = FALSE
  /\ UNCHANGED tenantVars
  /\ UNCHANGED frontVars

(* the teams other than the caller's with an active token on the shard:   *)
(* teamsInShard after teamsInShard.delete(teamIdStr)                       *)
teamsInShard(toks, team, shard) ==
  {toks[i].team : i \in {j \in ActiveIds(toks) : toks[j].assignedShard = shard}} \ {team}

AssignMatches(toks, team, tokenId) ==
  tokenId \in Ids(toks) /\ toks[tokenId].team = team /\ toks[tokenId].status = "active"

assignIngestionTokenShard_refusesOccupied(toks, team, tokenId, shard) ==
  IF AssignMatches(toks, team, tokenId) /\ teamsInShard(toks, team, shard) = {}
  THEN [toks EXCEPT ![tokenId].assignedShard = shard]
  ELSE toks

assignIngestionTokenShard(toks, team, tokenId, shard) ==
  IF AssignMatches(toks, team, tokenId)
  THEN [toks EXCEPT ![tokenId].assignedShard = shard]
  ELSE toks

AssignShard(team, tokenId, shard) ==
  /\ tokens' = assignIngestionTokenShard(tokens, team, tokenId, shard)
  /\ last' = IF AssignMatches(tokens, team, tokenId) THEN "OK" ELSE "NOT_FOUND"
  /\ assignUsed' = TRUE
  /\ warned' = (teamsInShard(tokens, team, shard) # {})
  /\ UNCHANGED <<issued, req>>
  /\ UNCHANGED tenantVars
  /\ UNCHANGED frontVars

markIngestionTokenUsed_reactivates(toks, tokenId, date) ==
  IF tokenId \in Ids(toks)
  THEN [toks EXCEPT ![tokenId].lastUsedAt = date, ![tokenId].status = "active"]
  ELSE toks

(* updateOne({_id: tokenId}, {$set: {lastUsedAt: new Date()}}).catch(() => {}) *)
markIngestionTokenUsed(toks, tokenId, date) ==
  IF tokenId \in Ids(toks)
  THEN [toks EXCEPT ![tokenId].lastUsedAt = date]
  ELSE toks

(* the call returns nothing and swallows every error *)
MarkUsed(tokenId) ==
  /\ \E date \in Clock(tokens) : tokens' = markIngestionTokenUsed(tokens, tokenId, date)
  /\ last' = "OK"
  /\ warned' = FALSE
  /\ UNCHANGED <<issued, assignUsed, req>>
  /\ UNCHANGED tenantVars
  /\ UNCHANGED frontVars

Resolve(token) ==
  /\ last' = IF resolveIngestionToken(tokens, token) = NoDoc THEN "NULL" ELSE "OK"
  /\ UNCHANGED <<tokens, issued, assignUsed, req>>
  /\ warned' = FALSE
  /\ UNCHANGED tenantVars
  /\ UNCHANGED frontVars

Idle == [pc |-> "idle", team |-> NoTeam, oldId |-> 0, shard |-> NoShard]

(* no connection, no source, an empty analytical store *)
NoConfig == [extensions |-> <<>>, receivers |-> <<>>, exporters |-> <<>>, pipelines |-> <<>>]

EmptyStore == [databases |-> {}, users |-> {}, grants |-> {}, tables |-> {}]

NoDatabase == <<>>

NoPassword == <<>>

BootIdle == [pc |-> "idle", team |-> NoTeam, conn |-> 0, database |-> NoDatabase, password |-> NoPassword]

(* the instance uids of the agents: the collector of shard-i has uid i *)
AgentUids == 0..(ShardCount - 1)

NoAgent == [known |-> FALSE, acceptsRemoteConfig |-> FALSE, shardId |-> NoShard]

(* nobody registered, no team, an empty agent registry *)
FrontInit ==
  /\ users = [user \in Users |-> [registered |-> FALSE, team |-> NoTeam]]
  /\ teamDocs = {}
  /\ members = {}
  /\ session = [user \in Users |-> NoTeam]
  /\ agents = [uid \in AgentUids |-> NoAgent]
  /\ reply = 0

TenantInit ==
  /\ conns = <<>>
  /\ config = [shard \in ShardNames |-> NoConfig]
  /\ store = EmptyStore
  /\ sources = [team \in Teams |-> <<>>]
  /\ boot = [p \in Procs |-> BootIdle]
  /\ enabled = TRUE

Init ==
  /\ tokens = <<>>
  /\ last = "OK"
  /\ issued = <<>>
  /\ assignUsed = FALSE
  /\ warned = FALSE
  /\ req = [p \in Procs |-> Idle]
  /\ TenantInit
  /\ FrontInit

Next ==
  \/ \E team \in Teams : Create(team)
  \/ \E team \in Teams, tokenId \in TokenIds : Rotate(team, tokenId)
  \/ \E team \in Teams, tokenId \in TokenIds : Revoke(team, tokenId)
  \/ \E team \in Teams, tokenId \in TokenIds, shard \in ShardNames : AssignShard(team, tokenId, shard)
  \/ \E token \in Plain : Resolve(token)

Spec == Init /\ [][Next]_vars

(* ------------------------------------------------- requests in parallel *)
(* Each await of createIngestionToken and rotateIngestionToken is a step   *)
(* of its own; req[p] holds what request p has read so far.  The requests  *)
(* handled in parallel are create, rotate and resolve, and the clock       *)
(* stands still: the dates play no part in how the steps interleave.       *)
EarliestDate(toks) == CHOOSE d \in Clock(toks) : \A e \in Clock(toks) : d <= e

(* await IngestionToken.findOne({team, status: 'active'}) and the branch   *)
(* on existingToken?.assignedShard                                         *)
FindExistingOn(p, toks, team, oldId) ==
  LET found == {i \in ActiveOfTeam(toks, team) : toks[i].assignedShard # NoShard}
  IN IF found # {}
     THEN \E i \in found :
            req' = [req EXCEPT ![p] = [pc |-> "insert", team |-> team, oldId |-> oldId,
                                       shard |-> toks[i].assignedShard]]
     ELSE req' = [req EXCEPT ![p] = [pc |-> "findShard", team |-> team, oldId |-> oldId,
                                     shard |-> NoShard]]

BeginCreate(p, team) ==
  /\ req[p].pc = "idle"
  /\ FindExistingOn(p, tokens, team, 0)
  /\ UNCHANGED <<tokens, last, issued, assignUsed, warned>>
  /\ UNCHANGED tenantVars
  /\ UNCHANGED frontVars

(* await revokeIngestionToken(params) *)
BeginRotate(p, team, tokenId) ==
  /\ req[p].pc = "idle"
  /\ tokens' = revokeIngestionToken(tokens, team, tokenId, EarliestDate(tokens))
  /\ req' = [req EXCEPT ![p] = [pc |-> "findExisting", team |-> team,
                                 oldId |-> IF RevokeMatches(tokens, team, tokenId)
                                              /\ tokens[tokenId].status = "active"
                                           THEN tokenId ELSE 0,
                                 shard |-> NoShard]]
  /\ UNCHANGED <<last, issued, assignUsed, warned>>
  /\ UNCHANGED tenantVars
  /\ UNCHANGED frontVars

FindExisting(p) ==
  /\ req[p].pc = "findExisting"
  /\ FindExistingOn(p, tokens, req[p].team, req[p].oldId)
  /\ UNCHANGED <<tokens, last, issued, assignUsed, warned>>
  /\ UNCHANGED tenantVars
  /\ UNCHANGED frontVars

(* await findNextAvailableShard(config.INGESTION_SHARD_COUNT) *)
FindShard(p) ==
  /\ req[p].pc = "findShard"
  /\ LET nextShard == findNextAvailableShard(tokens, ShardCount, NoTeam)
     IN IF nextShard = NoShard
        THEN /\ last' = "SHARDS_EXHAUSTED"
             /\ req' = [req EXCEPT ![p] = Idle]
        ELSE /\ last' = last
             /\ req' = [req EXCEPT ![p].pc = "insert", ![p].shard = nextShard]
  /\ UNCHANGED <<tokens, issued, assignUsed>>
  /\ warned' = (findNextAvailableShard(tokens, ShardCount, NoTeam) # NoShard /\ warned)
  /\ UNCHANGED tenantVars
  /\ UNCHANGED frontVars

(* await IngestionToken.create({...}) *)
Insert(p) ==
  /\ req[p].pc = "insert"
  /\ \E token \in generateIngestionToken(tokens) :
       IF HashTaken(tokens, hashIngestionToken(token))
       THEN /\ last' = "DUPLICATE_KEY"
            /\ UNCHANGED <<tokens, issued>>
       ELSE /\ tokens' = Append(tokens, NewDoc(req[p].team, token, req[p].shard))
            /\ last' = "OK"
            /\ issued' = Append(issued, [token |-> token, tokenId |-> Len(tokens) + 1,
                                         teamId |-> req[p].team,
                                         assignedShard |-> req[p].shard,
                                         rotated |-> req[p].oldId])
  /\ req' = [req EXCEPT ![p] = Idle]
  /\ UNCHANGED assignUsed
  /\ warned' = FALSE
  /\ UNCHANGED tenantVars
  /\ UNCHANGED frontVars

ParNext ==
  \/ \E p \in Procs, team \in Teams : BeginCreate(p, team)
  \/ \E p \in Procs, team \in Teams, tokenId \in TokenIds : BeginRotate(p, team, tokenId)
  \/ \E p \in Procs : FindExisting(p)
  \/ \E p \in Procs : FindShard(p)
  \/ \E p \in Procs : Insert(p)
  \/ \E token \in Plain : Resolve(token)

ParSpec == Init /\ [][ParNext]_vars

(* ------------------------------------------------------ colliding draws *)
(* create and rotate when generateIngestionToken may return any token,     *)
(* one drawn before included (the case the unique index of tokenHash is    *)
(* there for)                                                              *)
CreateDrawn(team, token) ==
  /\ CreateWith(tokens, team, 0, {token})
  /\ UNCHANGED <<assignUsed, req>>
  /\ warned' = FALSE
  /\ UNCHANGED tenantVars
  /\ UNCHANGED frontVars

RotateDrawn(team, tokenId, token) ==
  /\ \E date \in Clock(tokens) :
       CreateWith(revokeIngestionToken(tokens, team, tokenId, date), team,
                  IF RevokeMatches(tokens, team, tokenId) /\ tokens[tokenId].status = "active"
                  THEN tokenId ELSE 0,
                  {token})
  /\ UNCHANGED <<assignUsed, req>>
  /\ warned' = FALSE
  /\ UNCHANGED tenantVars
  /\ UNCHANGED frontVars

DrawNext ==
  \/ \E team \in Teams, token \in Plain : CreateDrawn(team, token)
  \/ \E team \in Teams, tokenId \in TokenIds, token \in Plain : RotateDrawn(team, tokenId, token)

DrawSpec == Init /\ [][DrawNext]_vars

(* ------------------------------------------- collector-config synthesizer *)
(* crypto.randomBytes(24).toString('hex'), the n-th draw *)
Password(n) == <<"pw", n>>

(* `tenant_${teamId}` *)
TenantName(team) == <<"tenant_", team>>

ManagedOf_anyTeam(cs, team) == {i \in DOMAIN cs : cs[i].isManaged}

(* Connection.find({team, isManaged: true}) *)
ManagedOf(cs, team) == {i \in DOMAIN cs : cs[i].team = team /\ cs[i].isManaged}

FindOrders_anyStatus(toks, shardId) ==
  LET found == {i \in Ids(toks) : toks[i].assignedShard = shardId}
      n == Cardinality(found)
  IN {order \in [1..n -> found] : \A a, b \in 1..n : a # b => order[a] # order[b]}

(* IngestionToken.find({status: 'active', assignedShard: shardId}): the    *)
(* ids of the matching documents, in any order the store may return them   *)
FindOrders(toks, shardId) ==
  LET found == {i \in ActiveIds(toks) : toks[i].assignedShard = shardId}
      n == Cardinality(found)
  IN {order \in [1..n -> found] : \A a, b \in 1..n : a # b => order[a] # order[b]}

(* Array.from(new Set(list)): the first occurrence of each element, in order *)
RECURSIVE distinctInOrder(_, _)
distinctInOrder(list, seen) ==
  IF list = <<>> THEN <<>>
  ELSE IF Head(list) \in seen THEN distinctInOrder(Tail(list), seen)
  ELSE <<Head(list)>> \o distinctInOrder(Tail(list), seen \cup {Head(list)})

RECURSIVE sort_descending(_)
sort_descending(list) ==
  IF list = <<>> THEN <<>>
  ELSE LET k == CHOOSE a \in DOMAIN list : \A b \in DOMAIN list : list[a] >= list[b]
       IN <<list[k]>> \o sort_descending(SubSeq(list, 1, k - 1) \o SubSeq(list, k + 1, Len(list)))

sort_asReturned(list) == list

(* Array.prototype.sort() of team id strings: ObjectId hex strings have    *)
(* one length, so their lexicographic order is the order of the ids        *)
RECURSIVE sort(_)
sort(list) ==
  IF list = <<>> THEN <<>>
  ELSE LET k == CHOOSE a \in DOMAIN list : \A b \in DOMAIN list : list[a] <= list[b]
       IN <<list[k]>> \o sort(SubSeq(list, 1, k - 1) \o SubSeq(list, k + 1, Len(list)))

teamIdsOf(toks, order) ==
  sort(distinctInOrder([k \in DOMAIN order |-> toks[order[k]].team], {}))

NopPipeline(name) ==
  [name |-> name, receivers |-> <<"otlp/hyperdx">>, processors |-> <<"batch">>, exporters |-> <<"nop">>]

TenantPipeline(name) ==
  [name |-> name, receivers |-> <<"otlp/hyperdx">>, processors |-> <<"memory_limiter", "batch">>,
   exporters |-> <<"clickhouse">>]

(* the nop config; the fields are listed in the order of the object literal *)
NopConfig ==
  [extensions |-> <<"health_check">>,
   receivers |-> <<"nop", "otlp/hyperdx">>,
   exporters |-> <<[name |-> "nop"]>>,
   pipelines |-> <<NopPipeline("logs/nop"), NopPipeline("traces/nop"), NopPipeline("metrics/nop")>>]

TenantConfig(teamId, password) ==
  [extensions |-> <<"health_check">>,
   receivers |-> <<"nop", "otlp/hyperdx">>,
   exporters |-> <<[name |-> "nop"],
                   [name |-> "clickhouse", database |-> TenantName(teamId),
                    username |-> TenantName(teamId), password |-> password]>>,
   pipelines |-> <<TenantPipeline("logs"), TenantPipeline("traces"), TenantPipeline("metrics")>>]

buildShardCollectorConfig_anyPassword(toks, order, cs) ==
  LET teamIds == teamIdsOf(toks, order)
  IN IF teamIds = <<>> THEN {NopConfig}
     ELSE {TenantConfig(teamIds[1], IF i = 0 THEN NoPassword ELSE cs[i].password) :
             i \in IF ManagedOf(cs, teamIds[1]) = {} THEN {0} ELSE ManagedOf(cs, teamIds[1])}

(* buildShardCollectorConfig with the documents of the token query in the  *)
(* given order: the configs the call may return (Connection.findOne gives  *)
(* any one managed connection of the team)                                 *)
buildShardCollectorConfig(toks, order, cs) ==
  LET teamIds == teamIdsOf(toks, order)
  IN IF teamIds = <<>> THEN {NopConfig}
     ELSE LET teamId == teamIds[1]
              found == ManagedOf(cs, teamId)
          IN IF found = {} THEN {NopConfig}
             ELSE {IF cs[i].password = NoPassword THEN NopConfig
                   ELSE TenantConfig(teamId, cs[i].password) : i \in found}

(* JSON.stringify(otelCollectorConfig): keys and array elements in         *)
(* insertion order                                                         *)
RECURSIVE stringifyAll(_, _)
stringifyAll(entries, k) ==
  IF k > Len(entries) THEN <<>>
  ELSE LET e == entries[k]
       IN (IF "database" \in DOMAIN e
           THEN <<e.name, "database", e.database, "username", e.username, "password", e.password>>
           ELSE IF "receivers" \in DOMAIN e
           THEN <<e.name, "receivers">> \o e.receivers \o <<"processors">> \o e.processors
                \o <<"exporters">> \o e.exporters
           ELSE <<e.name, "null">>)
          \o stringifyAll(entries, k + 1)

JSONstringify(cfg) ==
  <<"extensions">> \o cfg.extensions \o <<"receivers">> \o cfg.receivers
  \o <<"exporters">> \o stringifyAll(cfg.exporters, 1)
  \o <<"pipelines">> \o stringifyAll(cfg.pipelines, 1)

(* the AgentToServer messages: the Content-Type of the request, the        *)
(* instance uid, the AcceptsRemoteConfig capability and the hdx.shard_id   *)
(* identifying attribute (NoShard when the agent has none)                 *)
ProtoBuf_json == "application/json"

ProtoBuf == "application/x-protobuf"

(* a request whose body is no AgentToServer message has no fields to read *)
Messages ==
  [contentType : {ProtoBuf, "application/json"}, decodable : {TRUE}, instanceUid : AgentUids,
   acceptsRemoteConfig : BOOLEAN, shardId : ShardNames \cup {NoShard}]
  \cup [contentType : {ProtoBuf, "application/json"}, decodable : {FALSE}, instanceUid : {0},
        acceptsRemoteConfig : {FALSE}, shardId : {NoShard}]

(* decodeAgentToServer(req.body): whether it returns a message; it throws  *)
(* on a body that is none                                                  *)
decodeAgentToServer(msg) == msg.decodable

(* agentService.processAgentStatus: the entry of the agent, created if     *)
(* absent, with the fields of the message merged in                        *)
processAgentStatus(ags, msg) ==
  [ags EXCEPT ![msg.instanceUid] =
     [known |-> TRUE, acceptsRemoteConfig |-> msg.acceptsRemoteConfig, shardId |-> msg.shardId]]

agentAcceptsRemoteConfig(agent) == agent.acceptsRemoteConfig

(* OpampController.handleOpampMessage *)
handleOpampMessage(msg) ==
  /\ IF msg.contentType # ProtoBuf
     THEN /\ reply' = 415
          /\ UNCHANGED <<agents, config>>
     ELSE IF ~decodeAgentToServer(msg)
     THEN /\ reply' = 500
          /\ UNCHANGED <<agents, config>>
     ELSE LET agent == processAgentStatus(agents, msg)[msg.instanceUid]
          IN /\ agents' = processAgentStatus(agents, msg)
             /\ IF agentAcceptsRemoteConfig(agent)
                THEN IF agent.shardId = NoShard
                     THEN /\ reply' = 500
                          /\ UNCHANGED config
                     ELSE /\ \E order \in FindOrders(tokens, agent.shardId) :
                               \E cfg \in buildShardCollectorConfig(tokens, order, conns) :
                                 config' = [config EXCEPT ![agent.shardId] = cfg]
                          /\ reply' = 200
                ELSE /\ reply' = 200
                     /\ UNCHANGED config
  /\ UNCHANGED tokenVars
  /\ UNCHANGED <<conns, store, sources, boot, enabled>>
  /\ UNCHANGED <<users, teamDocs, members, session>>

(* the message of the collector of the shard: it accepts remote config and *)
(* carries hdx.shard_id = shardId                                          *)
HeartbeatOf(shardId) ==
  [contentType |-> ProtoBuf, decodable |-> TRUE, instanceUid |-> shardId[2], acceptsRemoteConfig |-> TRUE,
   shardId |-> shardId]

Heartbeat(shardId) == handleOpampMessage(HeartbeatOf(shardId))

(* The synthesizer on its inputs: every token collection of at most MaxSnap *)
(* documents and, for each team, no connection, a managed one, a managed    *)
(* one without a stored password, a user-configured one, or two managed     *)
(* ones.                                                                    *)
MaxSnap == 2

SnapShapes == [team : Teams, status : {"active", "revoked"}, assignedShard : ShardNames]

SnapDoc(i, shape) ==
  [team |-> shape.team, tokenHash |-> hashIngestionToken(i), tokenPrefix |-> tokenPrefix(i),
   status |-> shape.status, assignedShard |-> shape.assignedShard,
   revokedAt |-> IF shape.status = "revoked" THEN 1 ELSE NoDate, lastUsedAt |-> NoDate]

SnapTokens ==
  UNION {{[i \in 1..n |-> SnapDoc(i, shapes[i])] : shapes \in [1..n -> SnapShapes]} : n \in 0..MaxSnap}

ConnKinds == {"none", "managed", "noPassword", "unmanaged", "two"}

NewConnection(team, isManaged, password) ==
  [team |-> team, username |-> TenantName(team), isManaged |-> isManaged, password |-> password]

SnapConnsOfTeam(team, kind) ==
  CASE kind = "none" -> <<>>
    [] kind = "managed" -> <<NewConnection(team, TRUE, Password(2 * team - 1))>>
    [] kind = "noPassword" -> <<NewConnection(team, TRUE, NoPassword)>>
    [] kind = "unmanaged" -> <<NewConnection(team, FALSE, Password(2 * team - 1))>>
    [] kind = "two" -> <<NewConnection(team, TRUE, Password(2 * team - 1)),
                         NewConnection(team, TRUE, Password(2 * team))>>

RECURSIVE SnapConnsFrom(_, _)
SnapConnsFrom(kinds, team) ==
  IF team > NumTeams THEN <<>>
  ELSE SnapConnsOfTeam(team, kinds[team]) \o SnapConnsFrom(kinds, team + 1)

SnapConns == {SnapConnsFrom(kinds, 1) : kinds \in [Teams -> ConnKinds]}

SynthInit ==
  /\ tokens \in SnapTokens
  /\ conns \in SnapConns
  /\ last = "OK"
  /\ issued = <<>>
  /\ assignUsed = TRUE
  /\ warned = FALSE
  /\ req = [p \in Procs |-> Idle]
  /\ config = [shard \in ShardNames |-> NoConfig]
  /\ store = EmptyStore
  /\ sources = [team \in Teams |-> <<>>]
  /\ boot = [p \in Procs |-> BootIdle]
  /\ enabled = TRUE
  /\ FrontInit

SynthNext == \E shardId \in ShardNames : Heartbeat(shardId)

SynthSpec == SynthInit /\ [][SynthNext]_vars

(* ------------------------------------------- tenant storage provisioner *)
MaxPw == 2

(* the statements of provisionTenantClickhouse, in the order it issues them *)
StatementsOf(team, password) ==
  <<[op |-> "CREATE DATABASE IF NOT EXISTS", database |-> TenantName(team)],
    [op |-> "CREATE USER IF NOT EXISTS", user |-> TenantName(team), password |-> password],
    [op |-> "GRANT", database |-> TenantName(team), user |-> TenantName(team)],
    [op |-> "CREATE TABLE IF NOT EXISTS", database |-> TenantName(team), table |-> "otel_logs"],
    [op |-> "CREATE TABLE IF NOT EXISTS", database |-> TenantName(team), table |-> "otel_traces"],
    [op |-> "CREATE TABLE IF NOT EXISTS", database |-> TenantName(team), table |-> "hyperdx_sessions"]>>

NumStatements == 6

Execute_replaceUser(st, q) ==
  CASE q.op = "CREATE DATABASE IF NOT EXISTS" -> [st EXCEPT !.databases = @ \cup {q.database}]
    [] q.op = "CREATE USER IF NOT EXISTS" ->
         [st EXCEPT !.users = {u \in @ : u.name # q.user} \cup {[name |-> q.user, password |-> q.password]}]
    [] q.op = "GRANT" -> [st EXCEPT !.grants = @ \cup {[user |-> q.user, database |-> q.database]}]
    [] q.op \in {"CREATE TABLE IF NOT EXISTS", "CREATE TABLE"} ->
         [st EXCEPT !.tables = @ \cup {[database |-> q.database, table |-> q.table]}]

(* what the analytical store does with a statement of clickhouseAdminQuery *)
Execute(st, q) ==
  CASE q.op = "CREATE DATABASE IF NOT EXISTS" -> [st EXCEPT !.databases = @ \cup {q.database}]
    [] q.op = "CREATE USER IF NOT EXISTS" ->
         IF \E u \in st.users : u.name = q.user THEN st
         ELSE [st EXCEPT !.users = @ \cup {[name |-> q.user, password |-> q.password]}]
    [] q.op = "GRANT" -> [st EXCEPT !.grants = @ \cup {[user |-> q.user, database |-> q.database]}]
    [] q.op \in {"CREATE TABLE IF NOT EXISTS", "CREATE TABLE"} ->
         [st EXCEPT !.tables = @ \cup {[database |-> q.database, table |-> q.table]}]

(* the statements from the k-th on; clickhouseAdminQuery throws at the     *)
(* failAt-th (its request fails or times out), 0 for a run without failure *)
RECURSIVE runStatements(_, _, _, _)
runStatements(st, statements, k, failAt) ==
  IF k > Len(statements) THEN [store |-> st, ok |-> TRUE]
  ELSE IF k = failAt THEN [store |-> st, ok |-> FALSE]
  ELSE runStatements(Execute(st, statements[k]), statements, k + 1, failAt)

provisionTenantClickhouse(st, team, password, failAt) ==
  runStatements(st, StatementsOf(team, password), 1, failAt)

(* crypto.randomBytes(24).toString('hex'): a password that is nowhere yet, *)
(* the lowest such number; none is left once MaxPw are around              *)
UsedPasswords(st, cs, calls) ==
  {u.password : u \in st.users} \cup {cs[i].password : i \in DOMAIN cs}
  \cup {calls[p].password : p \in DOMAIN calls}

generatePassword(st, cs, calls) ==
  LET fresh == {n \in 1..MaxPw : Password(n) \notin UsedPasswords(st, cs, calls)}
  IN IF fresh = {} THEN {} ELSE {Password(CHOOSE n \in fresh : \A m \in fresh : n <= m)}

MaxBootTeams == 2

BootTeams == 1..MaxBootTeams

(* ------------------------------------------ team database initializer *)
(* the analytical store rejects a CREATE TABLE without IF NOT EXISTS of a  *)
(* table that exists                                                       *)
Rejects(st, q) ==
  q.op = "CREATE TABLE" /\ [database |-> q.database, table |-> q.table] \in st.tables

(* TABLE_SCHEMAS: the tables in the order of the object's keys, each with  *)
(* the statement its schema opens with                                     *)
TABLE_SCHEMAS ==
  <<[table |-> "otel_logs", op |-> "CREATE TABLE IF NOT EXISTS"],
    [table |-> "otel_traces", op |-> "CREATE TABLE IF NOT EXISTS"],
    [table |-> "hyperdx_sessions", op |-> "CREATE TABLE"],
    [table |-> "otel_metrics_gauge", op |-> "CREATE TABLE IF NOT EXISTS"],
    [table |-> "otel_metrics_sum", op |-> "CREATE TABLE IF NOT EXISTS"],
    [table |-> "otel_metrics_histogram", op |-> "CREATE TABLE IF NOT EXISTS"]>>

(* the names initializeTeamClickHouseDatabase is called with: a tenant     *)
(* name, or a bare team id that starts with a digit                        *)
DatabaseNames == {<<prefix, team>> : prefix \in {"tenant_", ""}, team \in BootTeams}

(* sanitizeDatabaseName: characters other than letters, digits and         *)
(* underscores become underscores (the names here have none) and a name    *)
(* that starts with a digit gets the prefix db_                            *)
sanitizeDatabaseName(name) == IF name[1] = "" THEN <<"db_", name[2]>> ELSE name

(* the commands of initializeTeamClickHouseDatabase, in the order it       *)
(* issues them                                                             *)
CommandsOf(sanitizedDbName) ==
  <<[op |-> "CREATE DATABASE IF NOT EXISTS", database |-> sanitizedDbName]>>
  \o [k \in DOMAIN TABLE_SCHEMAS |->
        [op |-> TABLE_SCHEMAS[k].op, database |-> sanitizedDbName, table |-> TABLE_SCHEMAS[k].table]]

(* the client.command calls from the k-th on; a command throws when the    *)
(* store rejects it, and the failAt-th (its request fails) too             *)
RECURSIVE runCommands(_, _, _, _)
runCommands(st, commands, k, failAt) ==
  IF k > Len(commands) THEN [store |-> st, ok |-> TRUE]
  ELSE IF k = failAt \/ Rejects(st, commands[k]) THEN [store |-> st, ok |-> FALSE]
  ELSE runCommands(Execute(st, commands[k]), commands, k + 1, failAt)

initializeTeamClickHouseDatabase(st, databaseName, failAt) ==
  runCommands(st, CommandsOf(sanitizeDatabaseName(databaseName)), 1, failAt)

(* ------------------------------------------------------ tenant bootstrap *)
(* the order in which ensureTenantClickhouseConnectionAndSources creates   *)
(* the sources                                                             *)
SourceKinds == <<"log", "trace", "session", "metric">>

NoSource == <<>>

NoLinks == [kind \in {"log", "trace", "session", "metric"} |-> NoSource]

(* the _id of the i-th source document of the team *)
SourceId(team, i) == <<team, i>>

KindsOf(srcs, team) == {srcs[team][i].kind : i \in DOMAIN srcs[team]}

(* byKind.get(kind): a source of the team of that kind *)
SourceOf(srcs, team, kind) ==
  SourceId(team, CHOOSE i \in DOMAIN srcs[team] : srcs[team][i].kind = kind)

NewSource(team, kind, connId, database) ==
  [team |-> team, kind |-> kind, connection |-> connId, database |-> database, links |-> NoLinks]

(* Source.create for the kinds from the k-th on that the team has not; the *)
(* failAt-th Source.create throws                                          *)
RECURSIVE createSources_always(_, _, _, _, _, _)
createSources_always(srcs, team, connId, database, k, failAt) ==
  IF k > Len(SourceKinds) THEN [sources |-> srcs, ok |-> TRUE]
  ELSE IF k = failAt THEN [sources |-> srcs, ok |-> FALSE]
  ELSE createSources_always([srcs EXCEPT ![team] = Append(@, NewSource(team, SourceKinds[k], connId, database))],
                            team, connId, database, k + 1, failAt)

RECURSIVE createSources(_, _, _, _, _, _)
createSources(srcs, team, connId, database, k, failAt) ==
  IF k > Len(SourceKinds) THEN [sources |-> srcs, ok |-> TRUE]
  ELSE IF SourceKinds[k] \in KindsOf(srcs, team)
  THEN createSources(srcs, team, connId, database, k + 1, failAt)
  ELSE IF k = failAt THEN [sources |-> srcs, ok |-> FALSE]
  ELSE createSources([srcs EXCEPT ![team] = Append(@, NewSource(team, SourceKinds[k], connId, database))],
                     team, connId, database, k + 1, failAt)

(* the four Source.updateOne({_id}, {$set: ...}): each source of the run   *)
(* gets the ids of the other three                                         *)
linkSources(srcs, team) ==
  LET idOf == [kind \in {"log", "trace", "session", "metric"} |-> SourceOf(srcs, team, kind)]
  IN [srcs EXCEPT ![team] =
        [i \in DOMAIN @ |->
           IF \E kind \in DOMAIN idOf : idOf[kind] = SourceId(team, i)
           THEN [@[i] EXCEPT !.links = [kind \in DOMAIN idOf |->
                                          IF idOf[kind] = SourceId(team, i) THEN NoSource ELSE idOf[kind]]]
           ELSE @[i]]]

ensureSources_linksFreshOnly(srcs, team, connId, database, failAt) ==
  IF database = NoDatabase THEN srcs
  ELSE LET created == createSources(srcs, team, connId, database, 1, failAt)
       IN IF created.ok /\ KindsOf(srcs, team) = {}
          THEN linkSources(created.sources, team)
          ELSE created.sources

(* from Source.find({team}) to the end of the function *)
ensureSources(srcs, team, connId, database, failAt) ==
  IF database = NoDatabase THEN srcs
  ELSE LET created == createSources(srcs, team, connId, database, 1, failAt)
       IN IF created.ok THEN linkSources(created.sources, team) ELSE created.sources

(* Connection.findOne({team, isManaged: true}) *)
BeginBootstrap(p, team) ==
  /\ boot[p].pc = "idle"
  /\ IF ManagedOf(conns, team) = {}
     THEN boot' = [boot EXCEPT ![p] = [BootIdle EXCEPT !.pc = "provision", !.team = team]]
     ELSE \E i \in ManagedOf(conns, team) :
            boot' = [boot EXCEPT ![p] = [BootIdle EXCEPT !.pc = "findSource", !.team = team, !.conn = i]]
  /\ UNCHANGED <<conns, config, store, sources, enabled>>
  /\ UNCHANGED tokenVars
  /\ UNCHANGED frontVars

(* provisionTenantClickhouse; null when provisioning is disabled *)
Provision(p, failAt) ==
  /\ boot[p].pc = "provision"
  /\ IF ~enabled
     THEN boot' = [boot EXCEPT ![p] = BootIdle] /\ store' = store
     ELSE \E password \in generatePassword(store, conns, boot) :
            LET run == provisionTenantClickhouse(store, boot[p].team, password, failAt)
            IN /\ store' = run.store
               /\ boot' = [boot EXCEPT ![p] = IF run.ok
                                               THEN [@ EXCEPT !.pc = "createConn", !.password = password,
                                                              !.database = TenantName(boot[p].team)]
                                               ELSE BootIdle]
  /\ UNCHANGED <<conns, config, sources, enabled>>
  /\ UNCHANGED tokenVars
  /\ UNCHANGED frontVars

(* Connection.create({team, username, password, isManaged: true}) *)
CreateConn(p) ==
  /\ boot[p].pc = "createConn"
  /\ conns' = Append(conns, NewConnection(boot[p].team, TRUE, boot[p].password))
  /\ boot' = [boot EXCEPT ![p] = [@ EXCEPT !.pc = "findSources", !.conn = Len(conns) + 1,
                                          !.password = NoPassword]]
  /\ UNCHANGED <<config, store, sources, enabled>>
  /\ UNCHANGED tokenVars
  /\ UNCHANGED frontVars

(* the connection existed: Source.findOne({team}) for the database name *)
FindSource(p) ==
  /\ boot[p].pc = "findSource"
  /\ boot' = [boot EXCEPT ![p] = [@ EXCEPT !.pc = "findSources",
                                          !.database = IF KindsOf(sources, boot[p].team) = {}
                                                       THEN NoDatabase
                                                       ELSE TenantName(boot[p].team)]]
  /\ UNCHANGED <<conns, config, store, sources, enabled>>
  /\ UNCHANGED tokenVars
  /\ UNCHANGED frontVars

(* Source.find({team}), the Source.create calls and the cross-links *)
EnsureSources(p, failAt) ==
  /\ boot[p].pc = "findSources"
  /\ sources' = ensureSources(sources, boot[p].team, boot[p].conn, boot[p].database, failAt)
  /\ boot' = [boot EXCEPT ![p] = BootIdle]
  /\ UNCHANGED <<conns, config, store, enabled>>
  /\ UNCHANGED tokenVars
  /\ UNCHANGED frontVars

(* the await a call is at throws: the call ends there *)
Fail(p) ==
  /\ boot[p].pc \in {"createConn", "findSource", "findSources"}
  /\ boot' = [boot EXCEPT ![p] = BootIdle]
  /\ UNCHANGED <<conns, config, store, sources, enabled>>
  /\ UNCHANGED tokenVars
  /\ UNCHANGED frontVars


BootInit ==
  /\ tokens = <<>>
  /\ last = "OK"
  /\ issued = <<>>
  /\ assignUsed = FALSE
  /\ warned = FALSE
  /\ req = [p \in Procs |-> Idle]
  /\ conns = <<>>
  /\ config = [shard \in ShardNames |-> NoConfig]
  /\ store = EmptyStore
  /\ sources = [team \in Teams |-> <<>>]
  /\ boot = [p \in Procs |-> BootIdle]
  /\ enabled \in BOOLEAN
  /\ FrontInit

BootNext ==
  \/ \E p \in Procs, team \in BootTeams : BeginBootstrap(p, team)
  \/ \E p \in Procs, failAt \in 0..NumStatements : Provision(p, failAt)
  \/ \E p \in Procs : CreateConn(p)
  \/ \E p \in Procs : FindSource(p)
  \/ \E p \in Procs, failAt \in 0..Len(SourceKinds) : EnsureSources(p, failAt)
  \/ \E p \in Procs : Fail(p)

BootSpec == BootInit /\ [][BootNext]_vars

(* bootstrap calls one after the other: a call returns or throws before   *)
(* the next one starts                                                     *)
RetryNext ==
  \/ \E team \in BootTeams : BeginBootstrap(1, team)
  \/ \E failAt \in 0..NumStatements : Provision(1, failAt)
  \/ CreateConn(1)
  \/ FindSource(1)
  \/ \E failAt \in 0..Len(SourceKinds) : EnsureSources(1, failAt)
  \/ Fail(1)

RetrySpec == BootInit /\ [][RetryNext]_vars

(* ------------------------------------------ registration, team creation *)
(* createTeam: a new Team document, its id one that no team has (the       *)
(* lowest here); none is left once NumTeams teams exist                    *)
createTeam(docs) ==
  LET fresh == Teams \ docs
  IN IF fresh = {} THEN {} ELSE {CHOOSE t \in fresh : \A u \in fresh : t <= u}

(* TeamMembership.findOne({user, team}), else TeamMembership.create *)
ensureTeamMembership(ms, user, team, roleIfCreate) ==
  IF \E m \in ms : m.user = user /\ m.team = team THEN ms
  ELSE ms \cup {[user |-> user, team |-> team, role |-> roleIfCreate, status |-> "active"]}

(* the await that throws in a request: none, one of the handler's own      *)
(* (createTeam, user.save, ensureTeamMembership) or one of the tenant      *)
(* bootstrap (the k-th statement of the provisioner, Connection.create,    *)
(* Source.find, the k-th Source.create)                                    *)
NoFailure == <<"none", 0>>

BootFailures ==
  {<<"provision", k>> : k \in 1..NumStatements} \cup {<<"createConn", 0>>, <<"find", 0>>}
  \cup {<<"source", k>> : k \in 1..Len(SourceKinds)}

HandlerFailures == {<<"createTeam", 0>>, <<"save", 0>>, <<"membership", 0>>}

Blocking_withBootstrap == {"createTeam", "save", "membership", "provision", "createConn", "find", "source"}

(* the awaits outside the try around the tenant bootstrap: a throw there   *)
(* ends the request with 500                                               *)
Blocking == {"createTeam", "save", "membership"}

(* ensureTenantClickhouseConnectionAndSources(team) run from call to       *)
(* return or throw with the given failure: the collections and the store   *)
(* it leaves, for each connection Connection.findOne may give              *)
ensureTenantClickhouseConnectionAndSources(st, cs, srcs, on, team, password, fail) ==
  LET found == ManagedOf(cs, team)
      sourceFail == IF fail[1] = "source" THEN fail[2] ELSE 0
      withSources(st1, cs1, i, database) ==
        IF fail[1] = "find"
        THEN [store |-> st1, conns |-> cs1, sources |-> srcs, threw |-> TRUE]
        ELSE [store |-> st1, conns |-> cs1,
              sources |-> ensureSources(srcs, team, i, database, sourceFail),
              threw |-> database # NoDatabase
                        /\ ~createSources(srcs, team, i, database, 1, sourceFail).ok]
  IN IF found = {}
     THEN IF ~on
          THEN {[store |-> st, conns |-> cs, sources |-> srcs, threw |-> FALSE]}
          ELSE LET run == provisionTenantClickhouse(st, team, password,
                                                    IF fail[1] = "provision" THEN fail[2] ELSE 0)
               IN IF ~run.ok \/ fail[1] = "createConn"
                  THEN {[store |-> run.store, conns |-> cs, sources |-> srcs, threw |-> TRUE]}
                  ELSE {withSources(run.store, Append(cs, NewConnection(team, TRUE, password)),
                                    Len(cs) + 1, TenantName(team))}
     ELSE {withSources(st, cs, i, IF KindsOf(srcs, team) = {} THEN NoDatabase ELSE TenantName(team)) :
             i \in found}

(* the password a provisioning run would draw *)
DrawnPasswords == IF enabled THEN generatePassword(store, conns, boot) ELSE {NoPassword}

(* POST /register/password *)
Register(user, fail) ==
  /\ IF users[user].registered
     THEN /\ reply' = 400
          /\ UNCHANGED <<users, teamDocs, members, session, conns, store, sources>>
     ELSE \E team \in createTeam(teamDocs) : \E password \in DrawnPasswords :
            \E run \in ensureTenantClickhouseConnectionAndSources(store, conns, sources, enabled,
                                                                  team, password, fail) :
              /\ teamDocs' = IF fail[1] = "createTeam" THEN teamDocs ELSE teamDocs \cup {team}
              /\ users' = [users EXCEPT ![user] =
                             [registered |-> TRUE,
                              team |-> IF fail[1] \in {"createTeam", "save"} THEN NoTeam ELSE team]]
              /\ session' = IF fail[1] \in {"createTeam", "save"} THEN session
                            ELSE [session EXCEPT ![user] = team]
              /\ members' = IF fail[1] \in {"createTeam", "save", "membership"} THEN members
                            ELSE ensureTeamMembership(members, user, team, "owner")
              /\ IF fail[1] \in {"createTeam", "save", "membership"}
                 THEN UNCHANGED <<conns, store, sources>>
                 ELSE /\ conns' = run.conns
                      /\ store' = run.store
                      /\ sources' = run.sources
              /\ reply' = IF fail[1] \in Blocking THEN 500 ELSE 200
  /\ UNCHANGED <<config, boot, enabled, agents>>
  /\ UNCHANGED tokenVars

(* POST /teams of a signed-in user *)
CreateTeamFor(user, fail) ==
  /\ IF ~users[user].registered
     THEN /\ reply' = 401
          /\ UNCHANGED <<users, teamDocs, members, session, conns, store, sources>>
     ELSE \E team \in createTeam(teamDocs) : \E password \in DrawnPasswords :
            \E run \in ensureTenantClickhouseConnectionAndSources(store, conns, sources, enabled,
                                                                  team, password, fail) :
              /\ teamDocs' = IF fail[1] = "createTeam" THEN teamDocs ELSE teamDocs \cup {team}
              /\ members' = IF fail[1] \in {"createTeam", "membership"} THEN members
                            ELSE ensureTeamMembership(members, user, team, "owner")
              /\ session' = IF fail[1] \in {"createTeam", "membership"} THEN session
                            ELSE [session EXCEPT ![user] = team]
              /\ users' = IF fail[1] \in {"createTeam", "membership", "save"} THEN users
                          ELSE [users EXCEPT ![user].team = team]
              /\ IF fail[1] \in {"createTeam", "membership", "save"}
                 THEN UNCHANGED <<conns, store, sources>>
                 ELSE /\ conns' = run.conns
                      /\ store' = run.store
                      /\ sources' = run.sources
              /\ reply' = IF fail[1] \in Blocking THEN 500 ELSE 201
  /\ UNCHANGED <<config, boot, enabled, agents>>
  /\ UNCHANGED tokenVars

SignupNext ==
  \/ \E user \in Users, fail \in {NoFailure} \cup HandlerFailures \cup BootFailures : Register(user, fail)
  \/ \E user \in Users, fail \in {NoFailure} \cup HandlerFailures \cup BootFailures : CreateTeamFor(user, fail)

SignupSpec == BootInit /\ [][SignupNext]_vars

(* ---------------------------------------------- registry and heartbeats *)
(* ensureTenantClickhouseConnectionAndSources from call to return, with no *)
(* other call in flight and no await that throws                           *)
Bootstrap(team) ==
  /\ \A p \in Procs : boot[p].pc = "idle"
  /\ LET found == ManagedOf(conns, team)
     IN IF found = {}
        THEN IF ~enabled
             THEN UNCHANGED <<conns, store, sources>>
             ELSE \E password \in generatePassword(store, conns, boot) :
                    /\ store' = provisionTenantClickhouse(store, team, password, 0).store
                    /\ conns' = Append(conns, NewConnection(team, TRUE, password))
                    /\ sources' = ensureSources(sources, team, Len(conns) + 1, TenantName(team), 0)
        ELSE \E i \in found :
               /\ sources' = ensureSources(sources, team, i,
                                           IF KindsOf(sources, team) = {} THEN NoDatabase
                                           ELSE TenantName(team), 0)
               /\ UNCHANGED <<conns, store>>
  /\ UNCHANGED <<config, boot, enabled>>
  /\ UNCHANGED tokenVars
  /\ UNCHANGED frontVars

(* Token requests of the owning team, tenant bootstrap and agent           *)
(* heartbeats, one after the other.  The clock stands still (the dates     *)
(* play no part in the config) and the teams are those that may be         *)
(* bootstrapped.                                                           *)
ConfigNext ==
  \/ \E team \in BootTeams : Create(team)
  \/ \E tokenId \in Ids(tokens) :
       Revoke(tokens[tokenId].team, tokenId) /\ tokens'[tokenId].revokedAt <= EarliestDate(tokens)
  \/ \E tokenId \in ActiveIds(tokens), shard \in ShardNames : AssignShard(tokens[tokenId].team, tokenId, shard)
  \/ \E team \in BootTeams : Bootstrap(team)
  \/ \E shardId \in ShardNames : Heartbeat(shardId)

ConfigSpec == Init /\ [][ConfigNext]_vars

(* --------------------------------------------------------- OpAMP endpoint *)
(* any message of any agent, between creates of tokens and tenant          *)
(* bootstraps                                                              *)
OpampNext ==
  \/ \E team \in BootTeams : Create(team)
  \/ \E team \in BootTeams : Bootstrap(team)
  \/ \E msg \in Messages : handleOpampMessage(msg)

OpampSpec == Init /\ [][OpampNext]_vars

TypeOK ==
  /\ Len(tokens) <= MaxPlain
  /\ Len(issued) = Len(tokens)

(* ================================================================ claims *)
TeamsOnShard(toks, shard) ==
  {toks[i].team : i \in {j \in ActiveIds(toks) : toks[j].assignedShard = shard}}

AllocatorShards == {ShardId(i) : i \in 0..(ShardCount - 1)}

(* the plaintext the caller of create or rotate was handed for document id *)
PlainOf(id) == issued[id].token

Resolves(toks, token) == resolveIngestionToken(toks, token) # NoDoc

(* C1: as long as assign_shard has not been called, after any sequence of  *)
(* create, rotate and revoke every shard has active tokens of at most one  *)
(* team.                                                                   *)
C1_OneTenantPerShard ==
  ~assignUsed => \A shard \in AllocatorShards : Cardinality(TeamsOnShard(tokens, shard)) <= 1

(* two teams hold active tokens, one of them got its token from a rotate,  *)
(* and a token was revoked                                                 *)
C1_Witness ==
  /\ ~assignUsed
  /\ \E i, j \in ActiveIds(tokens) : tokens[i].team # tokens[j].team /\ issued[j].rotated # 0
  /\ \E i \in Ids(tokens) : tokens[i].status = "revoked"

(* C2: whatever steps of other requests fall between the steps of a rotate *)
(* of an active token, in no state do the plaintext it revokes and the     *)
(* plaintext it hands out both resolve.                                    *)
C2_RotateAtomicForResolve ==
  \A id \in Ids(issued) :
    issued[id].rotated # 0 =>
      ~(Resolves(tokens, PlainOf(issued[id].rotated)) /\ Resolves(tokens, PlainOf(id)))

(* a rotate has inserted its new token after another request inserted one  *)
(* in between, a second rotate has revoked its token and not yet inserted, *)
(* and a resolve has answered null                                         *)
C2_Witness ==
  /\ \E id \in Ids(issued) :
       /\ issued[id].rotated # 0
       /\ id > issued[id].rotated + 1
       /\ Resolves(tokens, PlainOf(id))
  /\ \E p \in Procs : req[p].oldId # 0 /\ req[p].pc # "idle"
  /\ last = "NULL"

(* C3: a rotate step that takes the named record from active to revoked    *)
(* also adds the new active record.                                        *)
C3_RotateAllOrNothing ==
  [][\A team \in Teams, tokenId \in TokenIds :
       (/\ tokenId \in Ids(tokens)
        /\ tokens[tokenId].status = "active"
        /\ tokens'[tokenId].status = "revoked"
        /\ Rotate(team, tokenId))
       => (/\ Len(tokens') = Len(tokens) + 1
           /\ tokens'[Len(tokens')].status = "active"
           /\ tokens'[Len(tokens')].team = team)]_vars

(* C4: all active tokens of one team are on the same shard.                *)
C4_SameShardPerTeam ==
  \A i, j \in ActiveIds(tokens) :
    tokens[i].team = tokens[j].team => tokens[i].assignedShard = tokens[j].assignedShard

(* C5: once a rotate of an active token of the team has returned, the old  *)
(* plaintext resolves to null, and the new plaintext resolves to the new   *)
(* record, of the same team, for as long as that record is active.         *)
C5_RotateReadYourWrites ==
  \A id \in Ids(issued) :
    issued[id].rotated # 0 =>
      /\ ~Resolves(tokens, PlainOf(issued[id].rotated))
      /\ tokens[id].status = "active" =>
            /\ Resolves(tokens, PlainOf(id))
            /\ resolveIngestionToken(tokens, PlainOf(id)).tokenId = id
            /\ resolveIngestionToken(tokens, PlainOf(id)).teamId = tokens[issued[id].rotated].team

(* a rotate has returned, its new token is still active, and another call  *)
(* was made since                                                          *)
C5_Witness ==
  \E id \in Ids(issued) :
    /\ issued[id].rotated # 0
    /\ tokens[id].status = "active"
    /\ Len(tokens) > id

(* C6: a rotate naming a token id that is not a token of the calling team  *)
(* answers NOT_FOUND and leaves the collection as it was.                  *)
C6_RotateForeignNotFound ==
  [][\A team \in Teams, tokenId \in TokenIds :
       (~RevokeMatches(tokens, team, tokenId) /\ Rotate(team, tokenId))
       => (tokens' = tokens /\ issued' = issued /\ last' = "NOT_FOUND")]_vars

(* C7: a successful revoke leaves the record revoked with revokedAt set    *)
(* and its plaintext unresolvable, and a revoked record stays so through   *)
(* every later call.                                                       *)
C7_RevocationFinal ==
  [][/\ \A team \in Teams, tokenId \in TokenIds :
          (last' = "OK" /\ RevokeMatches(tokens, team, tokenId) /\ Revoke(team, tokenId))
          => (/\ tokens'[tokenId].status = "revoked"
              /\ tokens'[tokenId].revokedAt # NoDate
              /\ ~Resolves(tokens', PlainOf(tokenId)))
     /\ \A id \in Ids(tokens) :
          tokens[id].status = "revoked"
          => (/\ tokens'[id].status = "revoked"
              /\ tokens'[id].revokedAt # NoDate
              /\ ~Resolves(tokens', PlainOf(id)))]_vars

(* a token revoked by revoke (no rotate names it), with later documents    *)
C7_Witness ==
  \E id \in Ids(tokens) :
    /\ tokens[id].status = "revoked"
    /\ \A j \in Ids(issued) : issued[j].rotated # id
    /\ ~assignUsed
    /\ Len(tokens) > id

(* C8 as stated: an active token resolves to the team and the shard of its *)
(* creation response.                                                      *)
C8_ResolveRoundTripAsStated ==
  \A id \in Ids(issued) :
    tokens[id].status = "active" =>
      /\ Resolves(tokens, PlainOf(id))
      /\ resolveIngestionToken(tokens, PlainOf(id)).teamId = issued[id].teamId
      /\ resolveIngestionToken(tokens, PlainOf(id)).assignedShard = issued[id].assignedShard

(* C8 as amended: an active token resolves to the team of its creation     *)
(* response and to the shard its record holds now, which is the shard of   *)
(* the creation response as long as assign_shard has not been called.      *)
C8_ResolveRoundTrip ==
  \A id \in Ids(issued) :
    tokens[id].status = "active" =>
      /\ Resolves(tokens, PlainOf(id))
      /\ resolveIngestionToken(tokens, PlainOf(id)).tokenId = issued[id].tokenId
      /\ resolveIngestionToken(tokens, PlainOf(id)).teamId = issued[id].teamId
      /\ resolveIngestionToken(tokens, PlainOf(id)).assignedShard = tokens[id].assignedShard
      /\ ~assignUsed =>
            resolveIngestionToken(tokens, PlainOf(id)).assignedShard = issued[id].assignedShard

(* an active token that is not on shard-0, next to a revoked one, both     *)
(* before and after assign_shard was used                                  *)
C8_Witness ==
  /\ assignUsed
  /\ \E id \in ActiveIds(tokens) : tokens[id].assignedShard # issued[id].assignedShard
  /\ \E id \in ActiveIds(tokens) : tokens[id].assignedShard = issued[id].assignedShard

(* C9: resolve gives a document exactly when some record has the hash of   *)
(* the plaintext and is active; the id, team and shard it gives are those  *)
(* of that record; the call changes no record.                             *)
C9_ResolveExact ==
  [][\A token \in Plain :
       Resolve(token) =>
         LET matching == {i \in Ids(tokens) : /\ tokens[i].tokenHash = hashIngestionToken(token)
                                              /\ tokens[i].status = "active"}
             doc == resolveIngestionToken(tokens, token)
         IN /\ tokens' = tokens
            /\ (last' = "OK") <=> (matching # {})
            /\ (last' = "NULL") <=> (matching = {})
            /\ (doc # NoDoc) <=> (matching # {})
            /\ doc # NoDoc =>
                  /\ doc.tokenId \in matching
                  /\ doc.teamId = tokens[doc.tokenId].team
                  /\ doc.assignedShard = tokens[doc.tokenId].assignedShard]_vars

(* a resolve has just answered null while an active and a revoked record   *)
(* exist                                                                   *)
C9_Witness ==
  /\ last = "NULL"
  /\ \E i \in Ids(tokens) : tokens[i].status = "revoked"
  /\ \E i \in Ids(tokens) : tokens[i].status = "active"

(* C10: a create by a team without an active token, made when every one of *)
(* shard-0 .. shard-(N-1) has an active token, fails with SHARDS_EXHAUSTED *)
(* and inserts nothing.                                                    *)
C10_ShardExhaustion ==
  [][\A team \in Teams :
       (/\ ActiveOfTeam(tokens, team) = {}
        /\ \A shard \in AllocatorShards : TeamsOnShard(tokens, shard) # {}
        /\ Create(team))
       => (last' = "SHARDS_EXHAUSTED" /\ tokens' = tokens /\ issued' = issued)]_vars

(* two teams were given shard-0 and shard-1 and the create of a third team *)
(* has just failed                                                         *)
C10_Witness ==
  /\ last = "SHARDS_EXHAUSTED"
  /\ ~assignUsed
  /\ Len(tokens) = ShardCount
  /\ \A i \in Ids(tokens) : tokens[i].status = "active" /\ tokens[i].assignedShard = ShardId(i - 1)
  /\ \A i, j \in Ids(tokens) : i # j => tokens[i].team # tokens[j].team

(* C11: every active token record carries an assigned shard: the field is  *)
(* neither absent nor the empty string.                                    *)
C11_ActiveHasShard ==
  \A i \in ActiveIds(tokens) : tokens[i].assignedShard # NoShard /\ Len(tokens[i].assignedShard) > 0

(* active records exist whose shard came from the allocator, from the      *)
(* team's earlier token by a rotate, and from assign_shard                 *)
C11_Witness ==
  /\ assignUsed
  /\ \E i \in ActiveIds(tokens) : tokens[i].assignedShard # issued[i].assignedShard
  /\ \E i \in ActiveIds(tokens) : issued[i].rotated # 0
  /\ \E i \in ActiveIds(tokens) : issued[i].rotated = 0

(* C14: revoke, rotate and assign_shard called by a team with the id of a  *)
(* token of another team leave that token's record as it was; revoke and   *)
(* assign_shard answer NOT_FOUND.  (Each conjunct reads "the step kept the *)
(* record, or it is not that call".)                                       *)
C14_TenantIsolation ==
  [][\A tokenId \in Ids(tokens) : \A team \in Teams \ {tokens[tokenId].team} :
       /\ \/ (tokens'[tokenId] = tokens[tokenId] /\ last' = "NOT_FOUND")
          \/ ~(issued' = issued /\ Revoke(team, tokenId))
       /\ \/ tokens'[tokenId] = tokens[tokenId]
          \/ ~Rotate(team, tokenId)
       /\ \A shard \in ShardNames :
            \/ (tokens'[tokenId] = tokens[tokenId] /\ last' = "NOT_FOUND")
            \/ ~(assignUsed' /\ issued' = issued /\ AssignShard(team, tokenId, shard))]_vars

(* a call has just answered NOT_FOUND although every id names an active    *)
(* record: the id it carried was a token of another team                   *)
C14_Witness ==
  /\ last = "NOT_FOUND"
  /\ Len(tokens) = MaxPlain
  /\ ActiveIds(tokens) = Ids(tokens)
  /\ \E i, j \in Ids(tokens) : tokens[i].team # tokens[j].team

(* C13: the text of a plaintext token is handed out once, by the create or *)
(* rotate call that generated it, and is in no string field of a stored    *)
(* record (hash, prefix, shard) and in no list or assign_shard response;   *)
(* a record holds the hash and a prefix of at most 12 characters.          *)
C13_PlaintextOnce ==
  \A id \in Ids(tokens) :
    LET text == TokenText(PlainOf(id))
    IN /\ Cardinality({j \in DOMAIN issued : issued[j].token = PlainOf(id)}) = 1
       /\ tokens[id].tokenHash = hashIngestionToken(PlainOf(id))
       /\ tokens[id].tokenPrefix = SubSeq(text, 1, Len(tokens[id].tokenPrefix))
       /\ Len(tokens[id].tokenPrefix) <= 12
       /\ \A i \in Ids(tokens) :
            /\ tokens[i].tokenHash # text
            /\ tokens[i].tokenPrefix # text
            /\ tokens[i].assignedShard # text
            /\ AssignResponse(tokens, i).assignedShard # text
       /\ \A team \in Teams : \A k \in DOMAIN ListResponse(tokens, team) :
            /\ ListResponse(tokens, team)[k].tokenPrefix # text
            /\ ListResponse(tokens, team)[k].assignedShard # text

(* plaintexts were handed out by a create and by a rotate, one of them is  *)
(* revoked by now, and a list response has more than one entry             *)
C13_Witness ==
  /\ \E i \in Ids(tokens) : issued[i].rotated # 0
  /\ \E i \in Ids(tokens) : issued[i].rotated = 0 /\ tokens[i].status = "revoked"
  /\ \E team \in Teams : Len(ListResponse(tokens, team)) > 1
  /\ assignUsed

(* C12: whatever tokens create and rotate draw, after each of them no two  *)
(* records, revoked ones included, have the same token hash; a create or   *)
(* rotate whose draw is a token already stored fails and adds no record    *)
(* (read: a step that adds a record or succeeds is no such call).          *)
C12_HashUnique ==
  [][/\ \A i, j \in Ids(tokens') : i # j => tokens'[i].tokenHash # tokens'[j].tokenHash
     /\ \/ (Len(tokens') = Len(tokens) /\ last' # "OK")
        \/ \A token \in StoredTokens(tokens) : \A team \in Teams :
             /\ ~CreateDrawn(team, token)
             /\ \A tokenId \in TokenIds : ~RotateDrawn(team, tokenId, token)]_vars

(* an insert has just been rejected as a duplicate although no record is   *)
(* active: the hash it repeated is that of a revoked record                *)
C12_Witness ==
  /\ last = "DUPLICATE_KEY"
  /\ ActiveIds(tokens) = {}
  /\ Len(tokens) = 2

HasExporter(cfg, name) == \E k \in DOMAIN cfg.exporters : cfg.exporters[k].name = name

(* the team buildShardCollectorConfig builds for: the smallest team id     *)
(* with an active token on the shard                                       *)
SelectedTeam(toks, shard) ==
  CHOOSE team \in TeamsOnShard(toks, shard) : \A other \in TeamsOnShard(toks, shard) : team <= other

(* C15: when the config sent for a shard has a clickhouse exporter, its    *)
(* database and username are tenant_<T> for a team T with an active token  *)
(* on the shard, its password is that of a managed connection of T, and no *)
(* connection of another team has that password.                           *)
C15_NoCrossTenant ==
  \A shard \in ShardNames : \A k \in DOMAIN config[shard].exporters :
    LET e == config[shard].exporters[k]
    IN e.name = "clickhouse" =>
         \E team \in TeamsOnShard(tokens, shard) :
           /\ e.database = TenantName(team)
           /\ e.username = TenantName(team)
           /\ \E i \in DOMAIN conns :
                conns[i].team = team /\ conns[i].isManaged /\ conns[i].password = e.password
           /\ \A i \in DOMAIN conns : conns[i].team # team => conns[i].password # e.password

(* a tenant config was sent for a shard on which two teams have active     *)
(* tokens, both with a managed connection                                  *)
C15_Witness ==
  \E shard \in ShardNames :
    /\ HasExporter(config[shard], "clickhouse")
    /\ Cardinality(TeamsOnShard(tokens, shard)) = 2
    /\ \A team \in TeamsOnShard(tokens, shard) :
         \E i \in ManagedOf(conns, team) : conns[i].password # NoPassword

(* C16: when no team has an active token on the shard, or the selected     *)
(* team has no managed connection with a stored password, the config sent  *)
(* has no clickhouse exporter and has the pipelines logs/nop, traces/nop   *)
(* and metrics/nop, each exporting to nop.                                 *)
C16_NopSafety ==
  \A shard \in ShardNames :
    (/\ config[shard] # NoConfig
     /\ \/ TeamsOnShard(tokens, shard) = {}
        \/ \A i \in ManagedOf(conns, SelectedTeam(tokens, shard)) : conns[i].password = NoPassword)
    => /\ ~HasExporter(config[shard], "clickhouse")
       /\ \A name \in {"logs/nop", "traces/nop", "metrics/nop"} :
            \E k \in DOMAIN config[shard].pipelines :
              /\ config[shard].pipelines[k].name = name
              /\ config[shard].pipelines[k].exporters = <<"nop">>

(* nop configs were sent for a shard without active token and for a shard  *)
(* whose selected team has a managed connection without password, while    *)
(* another team on that shard has a managed connection with one            *)
C16_Witness ==
  /\ \E shard \in ShardNames : config[shard] # NoConfig /\ TeamsOnShard(tokens, shard) = {}
  /\ \E shard \in ShardNames :
       /\ config[shard] # NoConfig
       /\ \E team \in TeamsOnShard(tokens, shard) :
            /\ team # SelectedTeam(tokens, shard)
            /\ \E i \in ManagedOf(conns, team) : conns[i].password # NoPassword
       /\ ManagedOf(conns, SelectedTeam(tokens, shard)) # {}
       /\ \A i \in ManagedOf(conns, SelectedTeam(tokens, shard)) : conns[i].password = NoPassword

(* the newest token document is an active one of the team on the shard:   *)
(* so it is once a create of the team on the shard has completed           *)
NewestOn(toks, shard, team) ==
  /\ toks # <<>>
  /\ toks[Len(toks)].status = "active"
  /\ toks[Len(toks)].team = team
  /\ toks[Len(toks)].assignedShard = shard

(* the tenant configs of the team, one for each managed connection *)
TenantConfigsOf(cs, team) == {TenantConfig(team, cs[i].password) : i \in ManagedOf(cs, team)}

(* cfg is what the shard is due: the nop config when no token is active on *)
(* it (none exists yet, or all were revoked), the tenant config of the     *)
(* team whose create on the shard has completed when that team has a       *)
(* managed connection and is the one the synthesizer selects               *)
Fresh(shard, cfg) ==
  /\ TeamsOnShard(tokens, shard) = {} => cfg = NopConfig
  /\ \A team \in Teams :
       (/\ NewestOn(tokens, shard, team)
        /\ ManagedOf(conns, team) # {}
        /\ team = SelectedTeam(tokens, shard))
       => cfg \in TenantConfigsOf(conns, team)

(* the same without the condition on the selected team *)
FreshForAnyTeam(shard, cfg) ==
  /\ TeamsOnShard(tokens, shard) = {} => cfg = NopConfig
  /\ \A team \in Teams :
       (NewestOn(tokens, shard, team) /\ ManagedOf(conns, team) # {})
       => cfg \in TenantConfigsOf(conns, team)

(* C17 as stated: a heartbeat for shard s is answered from the token       *)
(* registry and the managed connections as they are at that request: with  *)
(* the nop config when no token is active on s, and with the tenant config *)
(* of T when a create for T on s has completed and T has a managed         *)
(* connection, whichever other teams have tokens on s.                     *)
C17_FreshForAnyTeam ==
  [][\A shard \in ShardNames :
       \/ FreshForAnyTeam(shard, config'[shard])
       \/ ~(config'[shard] # config[shard] /\ Heartbeat(shard))]_vars

(* C17: a heartbeat for shard s is answered from the token registry and    *)
(* the managed connections as they are at that request: with the nop       *)
(* config when no token is active on s (none exists yet, or all were       *)
(* revoked), and with the tenant config of T when a create for T on s has  *)
(* completed, T has a managed connection and no team with a smaller id has *)
(* an active token on s.                                                   *)
C17_ConfigFreshness ==
  [][\A shard \in ShardNames :
       \/ Fresh(shard, config'[shard])
       \/ ~(config'[shard] # config[shard] /\ Heartbeat(shard))]_vars

(* the tenant config of a team was sent for a shard on which the team's    *)
(* one token, the newest document, is active, while the other shard, with  *)
(* a revoked token of a team that has a managed connection and no active   *)
(* token, was sent the nop config                                          *)
C17_Witness ==
  \E shard, other \in ShardNames : \E team \in Teams :
    /\ NewestOn(tokens, shard, team)
    /\ team = SelectedTeam(tokens, shard)
    /\ \A i \in Ids(tokens) : tokens[i].team = team => i = Len(tokens)
    /\ config[shard] \in TenantConfigsOf(conns, team)
    /\ other # shard
    /\ TeamsOnShard(tokens, other) = {}
    /\ config[other] = NopConfig
    /\ \E i \in Ids(tokens) :
         /\ tokens[i].status = "revoked"
         /\ tokens[i].assignedShard = other
         /\ ManagedOf(conns, tokens[i].team) # {}

(* C18: for a shard, a token collection and at most one managed connection *)
(* of each team, every run of the synthesizer, whatever the order in which *)
(* the store returns the token records and whatever was sent before, gives *)
(* the same serialized config.                                             *)
C18_Deterministic ==
  \A shard \in ShardNames :
    (\A team \in Teams : Cardinality(ManagedOf(conns, team)) <= 1)
    => \A first, second \in FindOrders(tokens, shard) :
         \A cfg \in buildShardCollectorConfig(tokens, first, conns) :
           /\ \A other \in buildShardCollectorConfig(tokens, second, conns) :
                JSONstringify(cfg) = JSONstringify(other)
           /\ config[shard] # NoConfig => JSONstringify(config[shard]) = JSONstringify(cfg)

(* a tenant config was sent for a shard whose token query has two orders   *)
(* that start with different teams, both teams with one managed connection *)
C18_Witness ==
  \E shard \in ShardNames :
    /\ HasExporter(config[shard], "clickhouse")
    /\ \A team \in Teams : Cardinality(ManagedOf(conns, team)) <= 1
    /\ \E first, second \in FindOrders(tokens, shard) :
         /\ tokens[first[1]].team # tokens[second[1]].team
         /\ \A k \in {1, 2} : \E i \in ManagedOf(conns, tokens[first[k]].team) :
              conns[i].password # NoPassword

(* a provisioning run for the team has gone through all its statements *)
Provisioned(st, team) ==
  /\ TenantName(team) \in st.databases
  /\ \E u \in st.users : u.name = TenantName(team)
  /\ [user |-> TenantName(team), database |-> TenantName(team)] \in st.grants
  /\ \A table \in {"otel_logs", "otel_traces", "hyperdx_sessions"} :
       [database |-> TenantName(team), table |-> table] \in st.tables

(* C19: a provisioning run for a team for which a run has completed before *)
(* raises no error and leaves the analytical store (databases, users and   *)
(* their passwords, grants, tables) as it was.                             *)
C19_IdempotentProvisioning ==
  [][\A p \in Procs :
       (/\ boot[p].pc = "provision"
        /\ enabled
        /\ Provisioned(store, boot[p].team)
        /\ Provision(p, 0))
       => (store' = store /\ boot'[p].pc = "createConn")]_vars

(* a second run has completed for a provisioned team: the call holds a     *)
(* password that is not the one of the tenant user                         *)
C19_Witness ==
  \E p \in Procs :
    /\ boot[p].pc = "createConn"
    /\ Provisioned(store, boot[p].team)
    /\ \E u \in store.users : u.name = TenantName(boot[p].team) /\ u.password # boot[p].password

(* C20: a team never has more than one managed connection, and a           *)
(* provisioning run starts only for a team that has none.                  *)
C20_OneManagedConnection ==
  /\ \A team \in Teams : Cardinality(ManagedOf(conns, team)) <= 1
  /\ \A p \in Procs : boot[p].pc = "provision" => ManagedOf(conns, boot[p].team) = {}

(* the request of the user has created a team, made the user its owner and *)
(* the team the user's active one, and answered with the status            *)
SignedUp(user, before, after, ms, ses, us, status, expected) ==
  /\ status = expected
  /\ \E team \in after \ before :
       /\ [user |-> user, team |-> team, role |-> "owner", status |-> "active"] \in ms
       /\ ses[user] = team
       /\ us[user].team = team

(* C21: when the tenant bootstrap throws (at a provisioner statement, at   *)
(* Connection.create, at Source.find or at a Source.create) during a       *)
(* registration or a team creation, the team, the creator's owner          *)
(* membership and the active-team selection exist afterwards and the       *)
(* request is answered as a success (200, 201).                            *)
C21_SignupNotBlocked ==
  [][\A user \in Users : \A fail \in BootFailures :
       /\ \/ SignedUp(user, teamDocs, teamDocs', members', session', users', reply', 200)
          \/ ~(~users[user].registered /\ Register(user, fail))
       /\ \/ SignedUp(user, teamDocs, teamDocs', members', session', users', reply', 201)
          \/ ~(users[user].registered /\ CreateTeamFor(user, fail))]_vars

(* a request was answered as a success and left a team with its owner, a   *)
(* tenant database and no managed connection: its bootstrap threw after    *)
(* the first statement of the provisioner                                  *)
C21_Witness ==
  /\ enabled
  /\ reply \in {200, 201}
  /\ \E team \in teamDocs : \E user \in Users :
       /\ [user |-> user, team |-> team, role |-> "owner", status |-> "active"] \in members
       /\ session[user] = team
       /\ TenantName(team) \in store.databases
       /\ ManagedOf(conns, team) = {}
       /\ \A other \in teamDocs : other <= team

(* C22: a request whose Content-Type is not application/x-protobuf is      *)
(* answered 415, and nothing else happens: the agent registry is as it     *)
(* was and no config is built for any shard.                               *)
C22_UnsupportedMediaType ==
  [][\A msg \in Messages :
       \/ (reply' = 415 /\ agents' = agents /\ config' = config)
       \/ ~(msg.contentType = "application/json" /\ handleOpampMessage(msg))]_vars

(* a request was answered 415 when tokens and a managed connection exist,  *)
(* and no agent is registered and no config was built                      *)
C22_Witness ==
  /\ reply = 415
  /\ tokens # <<>>
  /\ conns # <<>>
  /\ \A uid \in AgentUids : ~agents[uid].known
  /\ \A shard \in ShardNames : config[shard] = NoConfig

(* C23: a request of an agent that accepts remote config and has no        *)
(* hdx.shard_id identifying attribute is answered 500 and the agent        *)
(* registry is after the request as it was before.                         *)
C23_MisconfiguredNoChange ==
  [][\A msg \in Messages :
       \/ (reply' = 500 /\ agents' = agents)
       \/ ~(/\ msg.contentType = ProtoBuf
            /\ msg.acceptsRemoteConfig
            /\ msg.shardId = NoShard
            /\ handleOpampMessage(msg))]_vars

(* C24: with create requests handled in parallel, each request's read of   *)
(* the active tokens and its insert interleaving with the other's, two     *)
(* active tokens of different teams are never on the same shard.           *)
C24_ParallelAllocation ==
  \A i, j \in ActiveIds(tokens) :
    tokens[i].team # tokens[j].team => tokens[i].assignedShard # tokens[j].assignedShard

(* C25: when a provisioning run for a team goes through all its statements *)
(* after an earlier run for the team had created the tenant user and then  *)
(* stopped, the password the run returns (the one the managed connection   *)
(* and the collector config will carry) is the password the tenant user    *)
(* has.                                                                    *)
C25_RetryPassword ==
  [][\A p \in Procs :
       (/\ boot[p].pc = "provision"
        /\ enabled
        /\ \E u \in store.users : u.name = TenantName(boot[p].team)
        /\ Provision(p, 0))
       => \E u \in store'.users :
            u.name = TenantName(boot[p].team) /\ u.password = boot'[p].password]_vars

(* C26: a bootstrap call that meets no failure ends with the team having a *)
(* managed connection and a source of each of the four kinds, whatever     *)
(* earlier calls for the team left behind when they stopped on a failure.  *)
C26_RetryCompletes ==
  [][\A p \in Procs :
       (/\ boot[p].pc = "findSources"
        /\ EnsureSources(p, 0))
       => /\ ManagedOf(conns', boot[p].team) # {}
          /\ KindsOf(sources', boot[p].team) = {"log", "trace", "session", "metric"}]_vars

(* C27: rotate keeps the team on its shard: whenever an active token of a  *)
(* team is rotated and the new token is issued, the new token's assigned   *)
(* shard is the assigned shard of the rotated token.  Stated for runs in   *)
(* which no assign_shard call has moved any token.                         *)
C27_RotateKeepsShard ==
  [][\A tokenId \in ActiveIds(tokens) :
       \/ assignUsed
       \/ Len(tokens') = Len(tokens)
       \/ tokens'[Len(tokens')].assignedShard = tokens[tokenId].assignedShard
       \/ ~Rotate(tokens[tokenId].team, tokenId)]_vars

(* C28: shard inheritance at create: when the team already has an active   *)
(* token, a create succeeds and gives the new token the assigned shard of  *)
(* one of the team's active tokens, whatever the allocator would return,   *)
(* also when every shard is occupied.                                      *)
C28_CreateInheritsShard ==
  [][\A team \in Teams :
       \/ ActiveOfTeam(tokens, team) = {}
       \* a step that is no create of the team: nothing inserted and no
       \* error returned, or a token of another team inserted
       \/ (Len(tokens') = Len(tokens) /\ last' = "OK")
       \/ (Len(tokens') > Len(tokens) /\ tokens'[Len(tokens')].team # team)
       \/ /\ last' = "OK"
          /\ Len(tokens') = Len(tokens) + 1
          /\ tokens'[Len(tokens')].team = team
          /\ tokens'[Len(tokens')].status = "active"
          /\ \E i \in ActiveOfTeam(tokens, team) :
                tokens'[Len(tokens')].assignedShard = tokens[i].assignedShard
       \/ ~Create(team)]_vars

(* every shard was occupied, and the newest token was created (not rotated) *)
(* for a team that had an active token: it sits on that token's shard      *)
C28_Witness ==
  /\ last = "OK"
  /\ ~assignUsed
  /\ Len(tokens) = ShardCount + 1
  /\ Len(issued) = Len(tokens)
  /\ issued[Len(issued)].rotated = 0
  /\ \A i \in Ids(tokens) : tokens[i].status = "active"
  /\ \A shard \in AllocatorShards : TeamsOnShard(SubSeq(tokens, 1, ShardCount), shard) # {}
  /\ \E i \in 1..ShardCount :
       /\ tokens[i].team = tokens[Len(tokens)].team
       /\ tokens[i].assignedShard = tokens[Len(tokens)].assignedShard

(* ------------------------------------------------- the allocator alone *)
(* Collections the allocator may be handed: active and revoked tokens of   *)
(* any team, on the allocator's shards or on a shard name that assign_shard *)
(* has set and the allocator never hands out.                              *)
MaxAlloc == 3

OutsideShard == ShardId(ShardCount)

AllocShapes ==
  [team : Teams, status : {"active", "revoked"}, assignedShard : ShardNames \cup {OutsideShard}]

AllocTokens ==
  UNION {{[i \in 1..n |-> SnapDoc(i, shapes[i])] : shapes \in [1..n -> AllocShapes]} : n \in 0..MaxAlloc}

AllocInit ==
  /\ tokens \in AllocTokens
  /\ last = "OK"
  /\ issued = <<>>
  /\ assignUsed = TRUE
  /\ warned = FALSE
  /\ req = [p \in Procs |-> Idle]
  /\ TenantInit
  /\ FrontInit

(* creates that have read the collection and not yet inserted *)
AllocNext ==
  \/ \E p \in Procs, team \in Teams : BeginCreate(p, team)
  \/ \E p \in Procs : FindShard(p)

AllocSpec == AllocInit /\ [][AllocNext]_vars

(* the shard indices below shardCount on which no active token of a team   *)
(* other than excludeTeamId sits                                           *)
FreeIndices(toks, shardCount, excludeTeamId) ==
  {i \in 0..(shardCount - 1) :
     ~\E j \in Ids(toks) : /\ toks[j].status = "active"
                           /\ toks[j].team # excludeTeamId
                           /\ toks[j].assignedShard = ShardId(i)}

(* the collection without its revoked tokens and without the tokens on     *)
(* shard names outside shard-0..shard-(shardCount-1)                       *)
Relevant(toks, shardCount) ==
  SelectSeq(toks, LAMBDA doc : /\ doc.status = "active"
                              /\ \E i \in 0..(shardCount - 1) : doc.assignedShard = ShardId(i))

(* C29: for every shard count N and every collection of tokens, the        *)
(* allocator returns shard-i for the smallest i in 0..N-1 with no active   *)
(* token of a non-excluded team on shard-i, and null exactly when there is *)
(* no such i; revoked tokens and tokens on shard names outside             *)
(* shard-0..shard-(N-1) do not change the result.  A create that asked the *)
(* allocator holds that result.                                            *)
C29_AllocatorResult ==
  /\ \A shardCount \in 0..(ShardCount + 1), excludeTeamId \in Teams \cup {NoTeam} :
       LET free == FreeIndices(tokens, shardCount, excludeTeamId)
           nextShard == findNextAvailableShard(tokens, shardCount, excludeTeamId)
       IN /\ (free = {}) <=> (nextShard = NoShard)
          /\ free # {} => \E i \in free : nextShard = ShardId(i) /\ \A k \in free : i <= k
          /\ nextShard = findNextAvailableShard(Relevant(tokens, shardCount), shardCount, excludeTeamId)
  /\ \A p \in Procs :
       (req[p].pc = "insert" /\ ActiveOfTeam(tokens, req[p].team) = {})
       => /\ req[p].shard \in ShardNames
          /\ TeamsOnShard(tokens, req[p].shard) = {}
          /\ \A i \in 0..(ShardCount - 1) :
               TeamsOnShard(tokens, ShardId(i)) = {} => req[p].shard[2] <= i

(* a create was handed shard-1 by the allocator while shard-0 holds an     *)
(* active token, shard-1 holds only a revoked one and another token sits   *)
(* on a shard name outside the allocator's                                 *)
C29_Witness ==
  /\ \E p \in Procs : /\ req[p].pc = "insert"
                       /\ req[p].shard = ShardId(1)
                       /\ ActiveOfTeam(tokens, req[p].team) = {}
  /\ \E i, j, k \in Ids(tokens) :
       /\ tokens[i].status = "active" /\ tokens[i].assignedShard = ShardId(0)
       /\ tokens[j].status = "revoked" /\ tokens[j].assignedShard = ShardId(1)
       /\ tokens[k].status = "active" /\ tokens[k].assignedShard = OutsideShard

(* C30: revocation releases the shard: a shard is occupied only while an   *)
(* active token is assigned to it.  Once tokens have been revoked, a create *)
(* by a team without an active token is given the lowest shard that holds  *)
(* no active token, whoever's revoked tokens sit on it, and fails with     *)
(* SHARDS_EXHAUSTED when there is none: a team whose tokens were all       *)
(* revoked is allocated afresh and does not return to its former shard.    *)
C30_RevocationReleases ==
  [][\A team \in Teams :
       LET free == FreeIndices(tokens, ShardCount, NoTeam)
       IN \/ ActiveOfTeam(tokens, team) # {}
          \/ ActiveIds(tokens) = Ids(tokens)
          \* a step that is no create of the team: nothing inserted and no
          \* exhaustion returned, or a token of another team inserted
          \/ (Len(tokens') = Len(tokens) /\ last' # "SHARDS_EXHAUSTED")
          \/ (Len(tokens') > Len(tokens) /\ tokens'[Len(tokens')].team # team)
          \/ /\ free = {}
             /\ last' = "SHARDS_EXHAUSTED"
             /\ tokens' = tokens
          \/ /\ free # {}
             /\ last' = "OK"
             /\ Len(tokens') = Len(tokens) + 1
             /\ tokens'[Len(tokens')].team = team
             /\ \E i \in free : /\ tokens'[Len(tokens')].assignedShard = ShardId(i)
                                /\ \A k \in free : i <= k
          \/ ~Create(team)]_vars

(* the first team's only token, on shard-0, was revoked; a second team was *)
(* then given shard-0; the first team's next create was given shard-1      *)
C30_Witness ==
  /\ ~assignUsed
  /\ Len(tokens) = 3
  /\ \A i \in 1..3 : issued[i].rotated = 0
  /\ tokens[1].status = "revoked" /\ tokens[1].assignedShard = ShardId(0)
  /\ tokens[2].status = "active" /\ tokens[2].assignedShard = ShardId(0)
  /\ tokens[2].team # tokens[1].team
  /\ tokens[3].status = "active" /\ tokens[3].assignedShard = ShardId(1)
  /\ tokens[3].team = tokens[1].team

(* ------------------------------------------------ assign_shard alone *)
(* assign_shard calls, with any team, token id and shard name, on the      *)
(* collections of AllocTokens                                              *)
AssignNext ==
  \E team \in Teams, tokenId \in 1..MaxAlloc, shard \in ShardNames \cup {OutsideShard} :
    AssignShard(team, tokenId, shard)

AssignSpec == AllocInit /\ [][AssignNext]_vars

(* C31: assign_shard is a permitted override: on an active token of the    *)
(* team it sets that token's assigned shard to the given shard, also when  *)
(* another team has an active token there, returns no error and logs the   *)
(* warning exactly when some other team has an active token on the target  *)
(* shard; no other record changes.  On a revoked token or a token that is  *)
(* not the team's it returns NOT_FOUND and changes nothing.                *)
C31_AssignOverride ==
  [][\* a step of assign_shard inserts nothing and leaves every status
     (/\ assignUsed'
      /\ issued' = issued
      /\ Len(tokens') = Len(tokens)
      /\ \A i \in Ids(tokens) : tokens'[i].status = tokens[i].status)
     => \A team \in Teams, tokenId \in 1..MaxAlloc, shard \in ShardNames \cup {OutsideShard} :
          \/ IF tokenId \in Ids(tokens) /\ tokens[tokenId].team = team /\ tokens[tokenId].status = "active"
             THEN /\ last' = "OK"
                  /\ tokens'[tokenId] = [tokens[tokenId] EXCEPT !.assignedShard = shard]
                  /\ \A i \in Ids(tokens) \ {tokenId} : tokens'[i] = tokens[i]
                  /\ warned' <=> \E i \in Ids(tokens) : /\ tokens[i].status = "active"
                                                       /\ tokens[i].team # team
                                                       /\ tokens[i].assignedShard = shard
             ELSE /\ last' = "NOT_FOUND"
                  /\ tokens' = tokens
          \/ ~AssignShard(team, tokenId, shard)]_vars

(* an assign_shard has just moved a token onto a shard on which another    *)
(* team has an active token: it returned the record and logged the warning *)
C31_Witness ==
  /\ last = "OK"
  /\ warned
  /\ \E i, j \in ActiveIds(tokens) :
       /\ tokens[i].team # tokens[j].team
       /\ tokens[i].assignedShard = tokens[j].assignedShard
  /\ \E k \in Ids(tokens) : tokens[k].status = "revoked"

(* ----------------------------------------------- the life of a record *)
(* create, rotate, revoke, assign_shard and mark_used, each called by the  *)
(* owner of the token it names, for the teams of BootTeams and with a     *)
(* clock that stands still                                                 *)
LifeNext ==
  \/ \E team \in BootTeams : Create(team)
  \/ \E tokenId \in Ids(tokens) :
       Rotate(tokens[tokenId].team, tokenId) /\ tokens'[tokenId].revokedAt <= EarliestDate(tokens)
  \/ \E tokenId \in Ids(tokens) :
       Revoke(tokens[tokenId].team, tokenId) /\ tokens'[tokenId].revokedAt <= EarliestDate(tokens)
  \/ \E tokenId \in Ids(tokens), shard \in ShardNames : AssignShard(tokens[tokenId].team, tokenId, shard)
  \/ \E tokenId \in TokenIds :
       MarkUsed(tokenId) /\ \A i \in Ids(tokens) : tokens'[i].lastUsedAt <= EarliestDate(tokens)

LifeSpec == Init /\ [][LifeNext]_vars

(* C32: the token lifecycle is monotonic: over create, rotate, revoke,     *)
(* assign_shard and mark_used no record is ever deleted (it keeps its      *)
(* place, team and hash) and no record goes from revoked back to active;   *)
(* a record starts active and its only status change is active to revoked. *)
C32_LifecycleMonotonic ==
  [][/\ Len(tokens') >= Len(tokens)
     /\ \A i \in Ids(tokens) :
          /\ tokens'[i].team = tokens[i].team
          /\ tokens'[i].tokenHash = tokens[i].tokenHash
          /\ tokens'[i].status \in {"active", "revoked"}
          /\ tokens[i].status = "revoked" => tokens'[i].status = "revoked"
     /\ \A i \in Ids(tokens') \ Ids(tokens) : tokens'[i].status = "active"]_vars

(* a revoked record has since been marked used, a rotate has revoked       *)
(* another record and an assign_shard has been called                      *)
C32_Witness ==
  /\ \E i \in Ids(tokens) : tokens[i].status = "revoked" /\ tokens[i].lastUsedAt # NoDate
  /\ \E i \in Ids(tokens) : issued[i].rotated # 0 /\ tokens[issued[i].rotated].status = "revoked"
  /\ assignUsed
  /\ Len(tokens) = MaxPlain

(* C33: after a successful provisioning run for a team the tenant database *)
(* holds every canonical table: otel_logs, otel_traces, hyperdx_sessions,  *)
(* otel_metrics_gauge, otel_metrics_sum and otel_metrics_histogram.        *)
C33_CanonicalTables ==
  \A p \in Procs :
    boot[p].pc = "createConn"
    => \A table \in {"otel_logs", "otel_traces", "hyperdx_sessions",
                     "otel_metrics_gauge", "otel_metrics_sum", "otel_metrics_histogram"} :
         [database |-> TenantName(boot[p].team), table |-> table] \in store.tables

(* the sources of the team of one kind *)
OfKind(srcs, team, kind) == {i \in DOMAIN srcs[team] : srcs[team][i].kind = kind}

(* C34: source creation is idempotent per kind: a bootstrap run that       *)
(* reaches source creation creates a source of a kind only if the team has *)
(* none of that kind (one source then), so a run that completes leaves the *)
(* team with a source of each of log, trace, metric and session; a run for *)
(* a team that has its managed connection and all four sources creates no  *)
(* further source and no further connection.                               *)
C34_SourcesIdempotent ==
  [][\A p \in Procs :
       LET team == boot[p].team
       IN /\ \A failAt \in 0..Len(SourceKinds) :
               (/\ boot[p].pc = "findSources"
                /\ boot[p].database # NoDatabase
                /\ EnsureSources(p, failAt))
               => /\ \A kind \in {"log", "trace", "metric", "session"} :
                       /\ OfKind(sources, team, kind) # {}
                          => OfKind(sources', team, kind) = OfKind(sources, team, kind)
                       /\ Cardinality(OfKind(sources', team, kind)) <= 1
                          \/ OfKind(sources', team, kind) = OfKind(sources, team, kind)
                  /\ failAt = 0 => KindsOf(sources', team) = {"log", "trace", "metric", "session"}
                  /\ conns' = conns
          /\ (/\ boot[p].pc # "idle"
              /\ ManagedOf(conns, team) # {}
              /\ KindsOf(sources, team) = {"log", "trace", "metric", "session"})
             => /\ Len(sources'[team]) = Len(sources[team])
                /\ conns' = conns]_vars

(* a run for a team that has its managed connection and its four sources,  *)
(* one of each kind, has reached the source creation                       *)
C34_Witness ==
  \E p \in Procs :
    /\ boot[p].pc = "findSources"
    /\ boot[p].database # NoDatabase
    /\ Cardinality(ManagedOf(conns, boot[p].team)) = 1
    /\ Len(sources[boot[p].team]) = 4
    /\ KindsOf(sources, boot[p].team) = {"log", "trace", "metric", "session"}

(* C35: complete cross-link graph: when a bootstrap run completes with all *)
(* four sources present, there is one source of each kind and each of the  *)
(* log, trace, metric and session sources holds, per other kind, the id of *)
(* the team's source of that kind (an existing source of the same team),   *)
(* also when some of the four existed before the run.                      *)
C35_CompleteLinks ==
  [][\A p \in Procs :
       LET team == boot[p].team
           kinds == {"log", "trace", "metric", "session"}
       IN (/\ boot[p].pc = "findSources"
           /\ boot[p].database # NoDatabase
           /\ EnsureSources(p, 0))
          => /\ \A kind \in kinds : Cardinality(OfKind(sources', team, kind)) = 1
             /\ \A i \in DOMAIN sources'[team] :
                  \A kind \in kinds \ {sources'[team][i].kind} :
                    \E j \in OfKind(sources', team, kind) :
                      /\ sources'[team][i].links[kind] = SourceId(team, j)
                      /\ sources'[team][j].team = team]_vars

(* a team has its four sources and each holds three links *)
C35_Witness ==
  \E team \in BootTeams :
    /\ Len(sources[team]) = 4
    /\ KindsOf(sources, team) = {"log", "trace", "metric", "session"}
    /\ \A i \in DOMAIN sources[team] :
         Cardinality({kind \in DOMAIN sources[team][i].links :
                        sources[team][i].links[kind] # NoSource}) = 3
    /\ \A p \in Procs : boot[p].pc = "idle"

(* C36: when more than one team has an active token on the shard, the      *)
(* config sent is built for the smallest team id among them and for no     *)
(* other: its clickhouse exporter, if any, names that team and carries the *)
(* password of one of its managed connections, it is that team's tenant    *)
(* config when the team has managed connections with a password, and it is *)
(* the nop config when the team has no managed connection, whatever the    *)
(* connections of the other teams on the shard.                            *)
C36_SmallestTeam ==
  \A shard \in ShardNames :
    (config[shard] # NoConfig /\ Cardinality(TeamsOnShard(tokens, shard)) > 1)
    => \E team \in TeamsOnShard(tokens, shard) :
         /\ \A other \in TeamsOnShard(tokens, shard) : team <= other
         /\ \A k \in DOMAIN config[shard].exporters :
              LET e == config[shard].exporters[k]
              IN e.name = "clickhouse"
                 => /\ e.database = TenantName(team)
                    /\ e.username = TenantName(team)
                    /\ \E i \in ManagedOf(conns, team) : conns[i].password = e.password
         /\ ManagedOf(conns, team) = {} => config[shard] = NopConfig
         /\ (/\ ManagedOf(conns, team) # {}
             /\ \A i \in ManagedOf(conns, team) : conns[i].password # NoPassword)
            => \E i \in ManagedOf(conns, team) : config[shard] = TenantConfig(team, conns[i].password)

(* the nop config was sent for a shard with two teams of which the smaller *)
(* has no managed connection and the larger has one with a password        *)
C36_Witness ==
  \E shard \in ShardNames :
    /\ config[shard] = NopConfig
    /\ Cardinality(TeamsOnShard(tokens, shard)) = 2
    /\ \E team, other \in TeamsOnShard(tokens, shard) :
         /\ team < other
         /\ ManagedOf(conns, team) = {}
         /\ \E i \in ManagedOf(conns, other) : conns[i].password # NoPassword

(* C37: a request with the content type application/x-protobuf whose body  *)
(* cannot be decoded as an AgentToServer message is answered 400 and       *)
(* changes no server state.                                                *)
C37_DecodeFailure ==
  [][\A msg \in Messages :
       \/ (reply' = 400 /\ agents' = agents /\ config' = config)
       \/ ~(/\ msg.contentType = ProtoBuf
            /\ ~msg.decodable
            /\ handleOpampMessage(msg))]_vars

(* --------------------------------------- the database initializer alone *)
(* a caller calls initializeTeamClickHouseDatabase and is then where the   *)
(* call returned ("initialized") or where it caught the error ("threw")    *)
InitializeDatabase(p, databaseName, failAt) ==
  /\ boot[p].pc = "idle"
  /\ LET run == initializeTeamClickHouseDatabase(store, databaseName, failAt)
     IN /\ store' = run.store
        /\ boot' = [boot EXCEPT ![p] = [BootIdle EXCEPT !.pc = IF run.ok THEN "initialized" ELSE "threw",
                                                        !.team = databaseName[2],
                                                        !.database = sanitizeDatabaseName(databaseName)]]
  /\ UNCHANGED <<conns, config, sources, enabled>>
  /\ UNCHANGED tokenVars
  /\ UNCHANGED frontVars

(* the caller goes on *)
InitReturn(p) ==
  /\ boot[p].pc \in {"initialized", "threw"}
  /\ boot' = [boot EXCEPT ![p] = BootIdle]
  /\ UNCHANGED <<conns, config, store, sources, enabled>>
  /\ UNCHANGED tokenVars
  /\ UNCHANGED frontVars

InitDbNext ==
  \/ \E p \in Procs, databaseName \in DatabaseNames, failAt \in 0..(Len(TABLE_SCHEMAS) + 1) :
       InitializeDatabase(p, databaseName, failAt)
  \/ \E p \in Procs : InitReturn(p)

InitDbSpec == BootInit /\ [][InitDbNext]_vars

(* the store holds the database and its six tables *)
Initialized(st, database) ==
  /\ database \in st.databases
  /\ \A table \in {"otel_logs", "otel_traces", "hyperdx_sessions",
                    "otel_metrics_gauge", "otel_metrics_sum", "otel_metrics_histogram"} :
       [database |-> database, table |-> table] \in st.tables

(* C38: initializeTeamClickHouseDatabase is idempotent: a call for a       *)
(* database name for which a call has completed before, with no request    *)
(* failing, succeeds and leaves the store unchanged.                       *)
C38_IdempotentInitialize ==
  [][\A p \in Procs, databaseName \in DatabaseNames :
       (/\ Initialized(store, sanitizeDatabaseName(databaseName))
        /\ InitializeDatabase(p, databaseName, 0))
       => (boot'[p].pc = "initialized" /\ store' = store)]_vars

(* C39: revoked_at is written once: no step, a revoke or rotate naming an  *)
(* already revoked token included, changes the status or the revokedAt of  *)
(* a record that is revoked.                                               *)
C39_RevokedAtOnce ==
  [][\A i \in Ids(tokens) :
       tokens[i].status = "revoked"
       => (tokens'[i].status = "revoked" /\ tokens'[i].revokedAt = tokens[i].revokedAt)]_vars
====
